---- MODULE Spec2Model ----
(***************************************************************************)
(* A model of the particle engine of src/src/lib/physics.js: the Universe  *)
(* with its particle collection, the photon absorption and emission        *)
(* sweeps, force accumulation, the Euler integrator and the boundary       *)
(* handler, driven through addParticle, removeAllElectrons and step.       *)
(*                                                                         *)
(* Numbers.  The code computes in IEEE doubles; the model computes on an   *)
(* integer grid with NaN as a distinguished value:                         *)
(*   length   1 unit = 1e-3          (size 1.0 = 1000)                     *)
(*   time     1 unit = 1 tick = dt   (dt = 0.01 s)                         *)
(*   velocity 1 unit = 1 length unit per tick, so x += vx * dt is exact    *)
(*   force    1 unit = 1 mass unit * length unit / tick^2                  *)
(*   energy   1 unit = 1/20 mass * velocity^2, so 0.5*m*v^2 = 10*m*v^2     *)
(*            units and the photon's 0.9 share is the integer 9*m*v^2      *)
(* Quotients and square roots round toward zero onto the grid, as the      *)
(* code's round to the nearest double.  0/0 is NaN, NaN propagates through *)
(* every operation and every comparison with NaN is false, as in IEEE.     *)
(***************************************************************************)
EXTENDS Integers, Sequences, FiniteSets, TLC

VARIABLES
  particles,                \* Universe.particles, in collection order
  size,                     \* Universe.size
  electrostaticCoefficient, \* Universe.electrostaticCoefficient (K_e * 1e5)
  staticProtons,            \* Universe.staticProtons
  strongForceEnabled,       \* Universe.strongForceEnabled
  gravityEnabled,           \* Universe.gravityEnabled
  groundGravityEnabled,     \* Universe.groundGravityEnabled
  mode3D,                   \* Universe.mode3D
  photonEmissionEnabled,    \* config.photonEmission.enabled is true
  onePhotonPerElectron,     \* config.photonEmission.onePhotonPerElectron
  ticks,                    \* number of operations so far
  op,                       \* the operation that produced this state
  pre,                      \* particles before that operation
  afterAbsorb,              \* step(): particles after handlePhotonElectronCollisions
  afterEmit,                \* step(): particles after checkAndEmitPhotons
  pairForces,               \* step(): forces[] after the pairwise loop
  netForces,                \* step(): forces[] handed to updateParticleMotion
  twin,                     \* particles of a second Universe, built identically
  tape,                     \* draws the second Universe's runSteps took and
                            \* the first has yet to take, oldest first
  owed,                     \* ticks the first Universe is behind the second
  mode3DState,              \* App: the React state mode3D
  mode3DDisabled,           \* App: the checkbox's disabled attribute, as last
                            \* rendered
  universeNo,               \* App: which Universe object universeRef holds
  setMode3DOn               \* length of that Universe's collection when
                            \* setMode3D was called on it

vars == <<particles, size, electrostaticCoefficient, staticProtons,
          strongForceEnabled, gravityEnabled, groundGravityEnabled, mode3D,
          photonEmissionEnabled, onePhotonPerElectron, ticks, op, pre,
          afterAbsorb, afterEmit, pairForces, netForces, twin, tape, owed,
          mode3DState, mode3DDisabled, universeNo, setMode3DOn>>

secondRun == <<twin, tape, owed>>

application == <<mode3DState, mode3DDisabled, universeNo, setMode3DOn>>

universe == <<size, electrostaticCoefficient, staticProtons, strongForceEnabled,
              gravityEnabled, groundGravityEnabled, mode3D,
              photonEmissionEnabled, onePhotonPerElectron>>

----------------------------------------------------------------------------
(* IEEE arithmetic on the grid *)

NaN == 999999999

Add(a, b) == IF a = NaN \/ b = NaN THEN NaN ELSE a + b

Sub(a, b) == IF a = NaN \/ b = NaN THEN NaN ELSE a - b

Neg(a) == IF a = NaN THEN NaN ELSE -a

Mul(a, b) == IF a = NaN \/ b = NaN THEN NaN ELSE a * b

Abs(a) == IF a = NaN THEN NaN ELSE IF a < 0 THEN -a ELSE a

\* a / b rounded toward zero; 0/0 is NaN.  A nonzero numerator over 0 does
\* not arise: every divisor is a mass (> 0 for a non-photon), a distance
\* (0 only when the numerator's displacement is 0) or guarded by the code.
Quot(a, b) ==
  IF a = NaN \/ b = NaN \/ b = 0 THEN NaN
  ELSE IF (a >= 0) = (b > 0)
       THEN Abs(a) \div Abs(b)
       ELSE -(Abs(a) \div Abs(b))

Lt(a, b) == a # NaN /\ b # NaN /\ a < b

Gt(a, b) == a # NaN /\ b # NaN /\ a > b

Le(a, b) == a # NaN /\ b # NaN /\ a <= b

Ge(a, b) == a # NaN /\ b # NaN /\ a >= b

RECURSIVE IsqrtIter(_, _, _)
IsqrtIter(n, lo, hi) ==
  IF lo >= hi THEN lo
  ELSE LET mid == (lo + hi + 1) \div 2
       IN  IF mid * mid <= n THEN IsqrtIter(n, mid, hi)
                             ELSE IsqrtIter(n, lo, mid - 1)

\* Math.sqrt: NaN for NaN and for a negative argument
Sqrt(a) ==
  IF a = NaN \/ a < 0 THEN NaN
  ELSE IsqrtIter(a, 0, IF a < 46340 THEN a ELSE 46340)

----------------------------------------------------------------------------
(* Universe constants, in model units *)

electronMass == 1

\* photonEmissionSpeedThreshold = 1e-3 = ThresholdNum / ThresholdDen
\* velocity units
ThresholdNum == 1

ThresholdDen == 100

\* shouldEmitPhoton: 0.00001 = 1 / EmissionCoefficientDen
EmissionCoefficientDen == 100000

\* photonAbsorptionDistance = 3 * 1e-3
photonAbsorptionDistance == 3

photonMinAgeForAbsorption == 100

\* F = K_strong * 1e-10 / r^4 is 10 * K_strong / r^4 force units
strongForceCoefficient == 10

StrongForceScale == 10

\* F = mass * K_gravity * 1e-6, with K_gravity in units of 1e7
gravityCoefficient == 10

groundGravityCoefficient == 10

dt == 1

\* the + 0.01 of Coulomb's denominator, in squared length units
Softening == 10000

\* calculateGravityForce: centerX = centerY = centerZ = 0.5
GravityCenter == 500

\* calculateGroundGravityForce: groundY = 1.0
groundY == 1000

\* managePhotonEmission: photonEnergyRatio = 0.9
PhotonEnergyRatioNum == 9

PhotonEnergyRatioDen == 10

\* speedReductionFactor = 1 / sqrt(1 - 0.9) = 3.162...,
\* SpeedReductionNum / SpeedReductionDen
SpeedReductionNum == 3162

SpeedReductionDen == 1000

----------------------------------------------------------------------------
(* Particle *)

Particle(id, x, y, vx, vy, charge, mass, fixed, z, vz, isPhoton, energy) ==
  [id |-> id, x |-> x, y |-> y, z |-> z, vx |-> vx, vy |-> vy, vz |-> vz,
   charge |-> charge, mass |-> mass, fixed |-> fixed, isPhoton |-> isPhoton,
   energy |-> energy, age |-> 0, hasEmittedPhoton |-> FALSE,
   forceElectroX |-> 0, forceElectroY |-> 0, forceElectroZ |-> 0,
   accelerationX |-> 0, accelerationY |-> 0, accelerationZ |-> 0]

ZeroForce == [fx |-> 0, fy |-> 0, fz |-> 0]

----------------------------------------------------------------------------
(* Force calculator *)

calculateElectrostaticForce(p1, p2) ==
  LET dx == Sub(p2.x, p1.x)
      dy == Sub(p2.y, p1.y)
      dz == IF mode3D THEN Sub(p2.z, p1.z) ELSE 0
      distanceSquared == Add(Add(Mul(dx, dx), Mul(dy, dy)), Mul(dz, dz))
      distance == Sqrt(distanceSquared)
      electrostaticForceMagnitude ==
        Quot(Neg(Mul(Mul(electrostaticCoefficient, p1.charge), p2.charge)),
             Add(distanceSquared, Softening))
  IN  [fx |-> Quot(Mul(electrostaticForceMagnitude, dx), distance),
       fy |-> Quot(Mul(electrostaticForceMagnitude, dy), distance),
       fz |-> IF mode3D
              THEN Quot(Mul(electrostaticForceMagnitude, dz), distance)
              ELSE 0]

\* At distance 0 the magnitude is Infinity and the direction 0/0, so each
\* component is NaN.
calculateStrongForce(p1, p2) ==
  LET dx == Sub(p2.x, p1.x)
      dy == Sub(p2.y, p1.y)
      dz == IF mode3D THEN Sub(p2.z, p1.z) ELSE 0
      distanceSquared == Add(Add(Mul(dx, dx), Mul(dy, dy)), Mul(dz, dz))
      distance == Sqrt(distanceSquared)
      \* (K * 1e-10) / (r^2 * r^2), divided in two steps to stay in range
      strongForceMagnitude ==
        Quot(Quot(strongForceCoefficient * StrongForceScale, distanceSquared),
             distanceSquared)
  IN  [fx |-> Quot(Mul(Neg(strongForceMagnitude), dx), distance),
       fy |-> Quot(Mul(Neg(strongForceMagnitude), dy), distance),
       fz |-> IF mode3D
              THEN Quot(Mul(Neg(strongForceMagnitude), dz), distance)
              ELSE 0]

calculateGravityForce(particle) ==
  LET dx == Sub(GravityCenter, particle.x)
      dy == Sub(GravityCenter, particle.y)
      dz == IF mode3D THEN Sub(GravityCenter, particle.z) ELSE 0
      distanceSquared == Add(Add(Mul(dx, dx), Mul(dy, dy)), Mul(dz, dz))
      distance == Sqrt(distanceSquared)
      gravityForceMagnitude == Mul(particle.mass, gravityCoefficient)
  IN  \* distance <= 1e-6: on the grid, distance 0
      IF Le(distance, 0) THEN ZeroForce
      ELSE [fx |-> Quot(Mul(gravityForceMagnitude, dx), distance),
            fy |-> Quot(Mul(gravityForceMagnitude, dy), distance),
            fz |-> IF mode3D
                   THEN Quot(Mul(gravityForceMagnitude, dz), distance)
                   ELSE 0]

calculateGroundGravityForce(particle) ==
  LET dy == Sub(groundY, particle.y)
  IN  IF Le(Abs(dy), 0) THEN ZeroForce
      ELSE [fx |-> 0,
            fy |-> Mul(particle.mass, groundGravityCoefficient),
            fz |-> 0]

calculateForce(p1, p2) ==
  LET electrostaticForce == calculateElectrostaticForce(p1, p2)
      strongForce == IF strongForceEnabled THEN calculateStrongForce(p1, p2)
                                           ELSE ZeroForce
  IN  [fx |-> Add(electrostaticForce.fx, strongForce.fx),
       fy |-> Add(electrostaticForce.fy, strongForce.fy),
       fz |-> Add(electrostaticForce.fz, strongForce.fz)]

----------------------------------------------------------------------------
(* Random draws.  Math.random() is a value draw / DrawDen of [0, 1); a     *)
(* direction is the unit vector of the angles drawn for an electron at     *)
(* rest, taken on the axes.                                                *)

DrawDen == 2

Draws == 0 .. (DrawDen - 1)

Directions ==
  { [dx |-> 1, dy |-> 0, dz |-> 0], [dx |-> -1, dy |-> 0, dz |-> 0],
    [dx |-> 0, dy |-> 1, dz |-> 0], [dx |-> 0, dy |-> -1, dz |-> 0],
    [dx |-> 0, dy |-> 0, dz |-> 1], [dx |-> 0, dy |-> 0, dz |-> -1] }

\* phi = PI / 2 in 2D mode: the direction lies in the plane
DirectionsOf(is3D) == IF is3D THEN Directions ELSE {d \in Directions : d.dz = 0}

DefaultDirection == [dx |-> 1, dy |-> 0, dz |-> 0]

----------------------------------------------------------------------------
(* Photon absorption subsystem *)

SpeedSquared(vx, vy, vz) == Add(Add(Mul(vx, vx), Mul(vy, vy)), Mul(vz, vz))

\* 0.5 * mass * speed^2, in energy units
HalfMassSpeedSquared(mass, speedSquared) == Mul(Mul(10, mass), speedSquared)

\* a collision test without the minimum age
PhotonCollidesAtAnyAge(photon, electron) ==
  LET dx == Sub(electron.x, photon.x)
      dy == Sub(electron.y, photon.y)
      dz == IF mode3D THEN Sub(electron.z, photon.z) ELSE 0
  IN  Lt(Sqrt(Add(Add(Mul(dx, dx), Mul(dy, dy)), Mul(dz, dz))),
         photonAbsorptionDistance)

\* lines 405-412: the collision test of one photon against one electron
PhotonCollides(photon, electron) ==
  LET dx == Sub(electron.x, photon.x)
      dy == Sub(electron.y, photon.y)
      dz == IF mode3D THEN Sub(electron.z, photon.z) ELSE 0
      distance == Sqrt(Add(Add(Mul(dx, dx), Mul(dy, dy)), Mul(dz, dz)))
  IN  Lt(distance, photonAbsorptionDistance)
      /\ photon.age >= photonMinAgeForAbsorption

\* lines 413-442: the electron after it absorbed the photon
AbsorbPhoton(electron, photon, dir) ==
  LET currentSpeedSquared == SpeedSquared(electron.vx, electron.vy, electron.vz)
      currentSpeed == Sqrt(currentSpeedSquared)
      currentKE == HalfMassSpeedSquared(electron.mass, currentSpeedSquared)
      newKE == Add(currentKE, photon.energy)
      \* sqrt(2 * newKE / mass)
      newSpeed == Sqrt(Quot(newKE, Mul(10, electron.mass)))
  IN  IF Gt(currentSpeed, 0)
      THEN [electron EXCEPT
              !.vx = Quot(Mul(@, newSpeed), currentSpeed),
              !.vy = Quot(Mul(@, newSpeed), currentSpeed),
              !.vz = IF mode3D THEN Quot(Mul(@, newSpeed), currentSpeed) ELSE @]
      ELSE [electron EXCEPT
              !.vx = Mul(newSpeed, dir.dx),
              !.vy = Mul(newSpeed, dir.dy),
              !.vz = IF mode3D THEN Mul(newSpeed, dir.dz) ELSE @]

\* an inner loop without the break: every electron in reach takes the energy
RECURSIVE ElectronLoopNoBreak(_, _, _, _)
ElectronLoopNoBreak(ps, i, j, dir) ==
  IF j > Len(ps) THEN [ps |-> ps, absorbed |-> FALSE]
  ELSE IF ps[j].charge >= 0 \/ ps[j].isPhoton
       THEN ElectronLoopNoBreak(ps, i, j + 1, dir)
  ELSE IF PhotonCollides(ps[i], ps[j])
       THEN [ps |-> ElectronLoopNoBreak(
                      [ps EXCEPT ![j] = AbsorbPhoton(ps[j], ps[i], dir)],
                      i, j + 1, dir).ps,
             absorbed |-> TRUE]
       ELSE ElectronLoopNoBreak(ps, i, j + 1, dir)

\* the inner loop (lines 399-450) for photon i, from electron j on
RECURSIVE ElectronLoop(_, _, _, _)
ElectronLoop(ps, i, j, dir) ==
  IF j > Len(ps) THEN [ps |-> ps, absorbed |-> FALSE]
  ELSE IF ps[j].charge >= 0 \/ ps[j].isPhoton THEN ElectronLoop(ps, i, j + 1, dir)
  ELSE IF PhotonCollides(ps[i], ps[j])
       THEN [ps |-> [ps EXCEPT ![j] = AbsorbPhoton(ps[j], ps[i], dir)],
             absorbed |-> TRUE]
       ELSE ElectronLoop(ps, i, j + 1, dir)

\* the outer loop (lines 395-451), from photon i on
RECURSIVE PhotonLoop(_, _, _, _)
PhotonLoop(ps, i, photonsToRemove, dirs) ==
  IF i > Len(ps) THEN [ps |-> ps, photonsToRemove |-> photonsToRemove]
  ELSE IF ~ps[i].isPhoton THEN PhotonLoop(ps, i + 1, photonsToRemove, dirs)
  ELSE LET r == ElectronLoop(ps, i, 1, dirs[i])
           marked == \E k \in 1 .. Len(photonsToRemove) : photonsToRemove[k] = i
       IN  PhotonLoop(r.ps, i + 1,
                      IF r.absorbed /\ ~marked THEN Append(photonsToRemove, i)
                                               ELSE photonsToRemove,
                      dirs)

\* splice(index - 1, 1): the element before the marked one goes
SpliceBefore(ps, index) ==
  IF index - 1 \in 1 .. Len(ps)
  THEN SubSeq(ps, 1, index - 2) \o SubSeq(ps, index, Len(ps))
  ELSE ps

\* splice(index, 2): the element after the marked one goes too
SpliceTwo(ps, index) ==
  IF index \in 1 .. Len(ps)
  THEN SubSeq(ps, 1, index - 1) \o SubSeq(ps, index + 2, Len(ps))
  ELSE ps

\* Array.prototype.splice(index, 1), with index counted from 1
Splice(ps, index) ==
  IF index \in 1 .. Len(ps)
  THEN SubSeq(ps, 1, index - 1) \o SubSeq(ps, index + 1, Len(ps))
  ELSE ps

\* a removal loop that takes the marks first to last
RECURSIVE RemoveLoopAscending(_, _, _)
RemoveLoopAscending(ps, photonsToRemove, k) ==
  IF k < 1 THEN ps
  ELSE Splice(RemoveLoopAscending(ps, photonsToRemove, k - 1), photonsToRemove[k])

\* lines 454-456: remove the marked photons, last mark first
RECURSIVE RemoveLoop(_, _, _)
RemoveLoop(ps, photonsToRemove, k) ==
  IF k < 1 THEN ps
  ELSE RemoveLoop(Splice(ps, photonsToRemove[k]), photonsToRemove, k - 1)

\* the particles after the sweep and the number of photons removed
handlePhotonElectronCollisions(ps, dirs) ==
  LET swept == PhotonLoop(ps, 1, <<>>, dirs)
  IN  [ps |-> RemoveLoop(swept.ps, swept.photonsToRemove,
                         Len(swept.photonsToRemove)),
       removed |-> Len(swept.photonsToRemove)]

----------------------------------------------------------------------------
(* Photon emission subsystem *)

shouldEmitPhoton(particle, draw) ==
  LET speed == Sqrt(SpeedSquared(particle.vx, particle.vy, particle.vz))
  IN  IF Lt(Mul(speed, ThresholdDen), ThresholdNum) THEN FALSE
      ELSE \* draw / DrawDen < 0.00001 * speed / threshold
           Lt(draw * EmissionCoefficientDen * ThresholdNum,
              Mul(speed, ThresholdDen * DrawDen))

\* a build that creates the photon whatever the configuration
EmissionAlways == TRUE

\* config.photonEmission.enabled, as line 344 reads it
EmissionConfigured == photonEmissionEnabled

\* speed * speed is speedSquared, which the sweep computed before the root.
\* Returns the electron as mutated and the photon created (or none).
managePhotonEmission(particle, speed, speedSquared, vx, vy, vz, id) ==
  LET initialKE == HalfMassSpeedSquared(electronMass, speedSquared)
      photonEnergy == Quot(Mul(PhotonEnergyRatioNum, initialKE),
                           PhotonEnergyRatioDen)
      Reduce(v) == Quot(Mul(v, SpeedReductionDen), SpeedReductionNum)
      photonSpeed == Reduce(speed)
      photonVx == Quot(Mul(vx, photonSpeed), speed)
      photonVy == Quot(Mul(vy, photonSpeed), speed)
      photonVz == IF mode3D THEN Quot(Mul(vz, photonSpeed), speed) ELSE 0
  IN  [particle |-> [particle EXCEPT
                       !.vx = Reduce(@),
                       !.vy = Reduce(@),
                       !.vz = IF mode3D THEN Reduce(@) ELSE @,
                       !.hasEmittedPhoton = TRUE],
       photon |-> IF EmissionConfigured
                  THEN <<Particle(id, particle.x, particle.y, photonVx, photonVy,
                                  0, 0, FALSE, particle.z, photonVz, TRUE,
                                  photonEnergy)>>
                  ELSE <<>>]

\* a sweep without the one-photon-per-electron test
EmissionSkipsNoPolicy(particle) == particle.charge >= 0 \/ particle.isPhoton

\* lines 501-506: the sweep passes over this particle
EmissionSkips(particle) ==
  \/ particle.charge >= 0
  \/ particle.isPhoton
  \/ (onePhotonPerElectron /\ particle.hasEmittedPhoton)

\* the loop of lines 499-521 from particle i on; newPhotons is the buffer
RECURSIVE EmitLoop(_, _, _, _, _)
EmitLoop(ps, i, newPhotons, draws, firstId) ==
  IF i > Len(ps) THEN [ps |-> ps, newPhotons |-> newPhotons]
  ELSE IF EmissionSkips(ps[i]) THEN EmitLoop(ps, i + 1, newPhotons, draws, firstId)
  ELSE LET vx == ps[i].vx
           vy == ps[i].vy
           vz == IF mode3D THEN ps[i].vz ELSE 0
           speedSquared == SpeedSquared(vx, vy, vz)
           speed == Sqrt(speedSquared)
       IN  IF shouldEmitPhoton(ps[i], draws[i])
           THEN LET e == managePhotonEmission(ps[i], speed, speedSquared, vx, vy,
                                              vz, firstId + Len(newPhotons))
                IN  EmitLoop([ps EXCEPT ![i] = e.particle], i + 1,
                             newPhotons \o e.photon, draws, firstId)
           ELSE EmitLoop(ps, i + 1, newPhotons, draws, firstId)

\* a sweep that adds the photon emitted last first
AppendsNewestFirst(ps, draws, firstId) ==
  LET swept == EmitLoop(ps, 1, <<>>, draws, firstId)
      n == Len(swept.newPhotons)
  IN  [ps |-> swept.ps \o [k \in 1 .. n |-> swept.newPhotons[n + 1 - k]],
       emitted |-> n]

\* the particles after the sweep, the new photons appended (lines 524-526)
checkAndEmitPhotons(ps, draws, firstId) ==
  LET swept == EmitLoop(ps, 1, <<>>, draws, firstId)
  IN  [ps |-> swept.ps \o swept.newPhotons, emitted |-> Len(swept.newPhotons)]

----------------------------------------------------------------------------
(* Boundary handler *)

OutOfDomain(c) == Lt(c, 0) \/ Gt(c, size)

\* lines 573-600: a photon is reflected once on each active axis
ReflectPhoton(particle) ==
  LET rx == IF Lt(particle.x, 0)
            THEN [particle EXCEPT !.x = Neg(@), !.vx = Neg(@)]
            ELSE IF Gt(particle.x, size)
                 THEN [particle EXCEPT !.x = Sub(2 * size, @), !.vx = Neg(@)]
                 ELSE particle
      ry == IF Lt(rx.y, 0)
            THEN [rx EXCEPT !.y = Neg(@), !.vy = Neg(@)]
            ELSE IF Gt(rx.y, size)
                 THEN [rx EXCEPT !.y = Sub(2 * size, @), !.vy = Neg(@)]
                 ELSE rx
  IN  IF ~mode3D THEN ry
      ELSE IF Lt(ry.z, 0)
           THEN [ry EXCEPT !.z = Neg(@), !.vz = Neg(@)]
           ELSE IF Gt(ry.z, size)
                THEN [ry EXCEPT !.z = Sub(2 * size, @), !.vz = Neg(@)]
                ELSE ry

\* lines 606-631: a coordinate clamped to the closest boundary point
ClampCoordinate(c) == IF Lt(c, 0) THEN 0 ELSE IF Gt(c, size) THEN size ELSE c

\* hitBoundary of lines 603-632
HitBoundary(particle) ==
  \/ OutOfDomain(particle.x)
  \/ OutOfDomain(particle.y)
  \/ (mode3D /\ OutOfDomain(particle.z))

\* a handler that stops only the axes that left the domain
StopHitAxesOnly(particle) ==
  [particle EXCEPT
     !.vx = IF OutOfDomain(particle.x) THEN 0 ELSE @,
     !.vy = IF OutOfDomain(particle.y) THEN 0 ELSE @,
     !.vz = IF mode3D /\ OutOfDomain(particle.z) THEN 0 ELSE @,
     !.accelerationX = IF OutOfDomain(particle.x) THEN 0 ELSE @,
     !.accelerationY = IF OutOfDomain(particle.y) THEN 0 ELSE @,
     !.accelerationZ = IF mode3D /\ OutOfDomain(particle.z) THEN 0 ELSE @]

\* lines 635-645: velocity and acceleration after a boundary hit
StopParticle(particle) ==
  [particle EXCEPT !.vx = 0, !.vy = 0,
                   !.accelerationX = 0, !.accelerationY = 0,
                   !.vz = IF mode3D THEN 0 ELSE @,
                   !.accelerationZ = IF mode3D THEN 0 ELSE @]

\* lines 603-645: an electron or proton is clamped and, if it hit, stopped
ClampParticle(particle) ==
  LET stopped == IF HitBoundary(particle) THEN StopParticle(particle)
                                          ELSE particle
  IN  [stopped EXCEPT
         !.x = ClampCoordinate(@),
         !.y = ClampCoordinate(@),
         !.z = IF mode3D THEN ClampCoordinate(@) ELSE @]

\* a handler that treats a photon like an electron
ClampEveryParticle(particle) == ClampParticle(particle)

applyBoundaryConditions(particle) ==
  IF particle.isPhoton THEN ReflectPhoton(particle) ELSE ClampParticle(particle)

----------------------------------------------------------------------------
(* Integrator *)

\* a photon moved by the time elapsed on the clock instead of dt
AdvanceByElapsedTime(particle) ==
  [particle EXCEPT !.x = Add(@, Mul(particle.vx, dt + ticks)),
                   !.y = Add(@, Mul(particle.vy, dt + ticks)),
                   !.z = IF mode3D THEN Add(@, Mul(particle.vz, dt + ticks))
                                   ELSE @,
                   !.age = @ + 1]

\* a photon that moves but does not age
AdvancePhotonUnaged(particle) ==
  [particle EXCEPT !.x = Add(@, Mul(particle.vx, dt)),
                   !.y = Add(@, Mul(particle.vy, dt)),
                   !.z = IF mode3D THEN Add(@, Mul(particle.vz, dt)) ELSE @]

\* a photon that pays for its flight: one unit of energy per tick
AdvancePhotonRedshifted(particle) ==
  [particle EXCEPT !.x = Add(@, Mul(particle.vx, dt)),
                   !.y = Add(@, Mul(particle.vy, dt)),
                   !.z = IF mode3D THEN Add(@, Mul(particle.vz, dt)) ELSE @,
                   !.age = @ + 1,
                   !.energy = Sub(@, 1)]

\* lines 679-685: a photon moves in a straight line and ages
AdvancePhoton(particle) ==
  [particle EXCEPT !.x = Add(@, Mul(particle.vx, dt)),
                   !.y = Add(@, Mul(particle.vy, dt)),
                   !.z = IF mode3D THEN Add(@, Mul(particle.vz, dt)) ELSE @,
                   !.age = @ + 1]

\* an integrator that passes over static protons only
SkipsStaticOnly(particle) == staticProtons /\ particle.charge > 0

\* lines 696-700: the integrator returns before moving this particle
IntegratorSkips(particle) ==
  particle.fixed \/ (staticProtons /\ particle.charge > 0)

\* lines 702-724: Euler step of a non-photon, before the boundary handler
Integrate(particle, forceX, forceY, forceZ) ==
  LET ax == Quot(forceX, particle.mass)
      ay == Quot(forceY, particle.mass)
      az == IF mode3D THEN Quot(forceZ, particle.mass) ELSE 0
      vx == Add(particle.vx, Mul(ax, dt))
      vy == Add(particle.vy, Mul(ay, dt))
      vz == IF mode3D THEN Add(particle.vz, Mul(az, dt)) ELSE particle.vz
  IN  [particle EXCEPT
         !.accelerationX = ax, !.accelerationY = ay, !.accelerationZ = az,
         !.vx = vx, !.vy = vy, !.vz = vz,
         !.x = Add(@, Mul(vx, dt)),
         !.y = Add(@, Mul(vy, dt)),
         !.z = IF mode3D THEN Add(@, Mul(vz, dt)) ELSE @]

updateParticleMotion(particle, forceX, forceY, forceZ) ==
  IF particle.isPhoton
  THEN applyBoundaryConditions(AdvancePhoton(particle))
  ELSE LET stored == [particle EXCEPT !.forceElectroX = forceX,
                                      !.forceElectroY = forceY,
                                      !.forceElectroZ = forceZ]
       IN  IF IntegratorSkips(stored) THEN stored
           ELSE applyBoundaryConditions(Integrate(stored, forceX, forceY, forceZ))

----------------------------------------------------------------------------
(* Force accumulation of step() *)

AddForce(f, g) ==
  [fx |-> Add(f.fx, g.fx), fy |-> Add(f.fy, g.fy), fz |-> Add(f.fz, g.fz)]

SubForce(f, g) ==
  [fx |-> Sub(f.fx, g.fx), fy |-> Sub(f.fy, g.fy), fz |-> Sub(f.fz, g.fz)]

\* lines 758-760
ZeroForces(ps) == [i \in 1 .. Len(ps) |-> ZeroForce]

\* lines 780-786: Newton's third law for the pair (i, j)
AccumulatePair(forces, i, j, force) ==
  [forces EXCEPT ![i] = AddForce(@, force), ![j] = SubForce(@, force)]

\* a pairwise loop that lets photons in
PairLoopSkipsNone(particle) == FALSE

\* lines 771 and 775: the pairwise loop passes over this particle
PairLoopSkips(particle) == particle.isPhoton

\* lines 769-788, from the pair (i, j) on
RECURSIVE PairLoop(_, _, _, _)
PairLoop(ps, i, j, forces) ==
  IF i > Len(ps) THEN forces
  ELSE IF PairLoopSkips(ps[i]) \/ j > Len(ps)
       THEN PairLoop(ps, i + 1, i + 2, forces)
  ELSE IF PairLoopSkips(ps[j]) THEN PairLoop(ps, i, j + 1, forces)
  ELSE PairLoop(ps, i, j + 1,
                AccumulatePair(forces, i, j, calculateForce(ps[i], ps[j])))

PairwiseForces(ps) == PairLoop(ps, 1, 2, ZeroForces(ps))

\* lines 794 and 809: the field-force loops pass over this particle
FieldLoopSkips(particle) == particle.isPhoton

\* lines 791-803
GravityLoop(ps, forces) ==
  IF ~gravityEnabled THEN forces
  ELSE [i \in 1 .. Len(ps) |->
          IF FieldLoopSkips(ps[i]) THEN forces[i]
          ELSE AddForce(forces[i], calculateGravityForce(ps[i]))]

\* lines 806-818
GroundGravityLoop(ps, forces) ==
  IF ~groundGravityEnabled THEN forces
  ELSE [i \in 1 .. Len(ps) |->
          IF FieldLoopSkips(ps[i]) THEN forces[i]
          ELSE AddForce(forces[i], calculateGroundGravityForce(ps[i]))]

\* the forces[] array that line 822 hands to the integrator
NetForces(ps) == GroundGravityLoop(ps, GravityLoop(ps, PairwiseForces(ps)))

\* lines 763-767
ResetForceTracking(ps) ==
  [i \in 1 .. Len(ps) |->
     [ps[i] EXCEPT !.forceElectroX = 0, !.forceElectroY = 0,
                   !.forceElectroZ = 0]]

\* lines 821-823
MoveAll(ps, forces) ==
  [i \in 1 .. Len(ps) |->
     updateParticleMotion(ps[i], forces[i].fx, forces[i].fy, forces[i].fz)]

----------------------------------------------------------------------------
(* Energy accounting, src/src/lib/energy.js *)

\* the + 0.01 of the potential's denominator, in length units
EnergySoftening == 10

\* lines 16-27, from particle i on
RECURSIVE KineticEnergyLoop(_, _)
KineticEnergyLoop(ps, i) ==
  IF i > Len(ps) THEN 0
  ELSE IF ps[i].isPhoton THEN KineticEnergyLoop(ps, i + 1)
  ELSE LET vz == IF mode3D THEN ps[i].vz ELSE 0
           kineticEnergy ==
             HalfMassSpeedSquared(ps[i].mass,
                                  SpeedSquared(ps[i].vx, ps[i].vy, vz))
       IN  Add(kineticEnergy, KineticEnergyLoop(ps, i + 1))

calculateTotalKineticEnergy(ps) == KineticEnergyLoop(ps, 1)

\* lines 41-45, from particle i on
RECURSIVE PhotonEnergyLoop(_, _)
PhotonEnergyLoop(ps, i) ==
  IF i > Len(ps) THEN 0
  ELSE IF ps[i].isPhoton THEN Add(ps[i].energy, PhotonEnergyLoop(ps, i + 1))
  ELSE PhotonEnergyLoop(ps, i + 1)

calculateTotalPhotonEnergy(ps) == PhotonEnergyLoop(ps, 1)

\* lines 71-84: K * q1 * q2 / (distance + 0.01); one mass * length^2 /
\* tick^2 is 20 energy units
PairPotentialEnergy(p1, p2) ==
  LET dx == Sub(p2.x, p1.x)
      dy == Sub(p2.y, p1.y)
      dz == IF mode3D THEN Sub(p2.z, p1.z) ELSE 0
      distance == Sqrt(Add(Add(Mul(dx, dx), Mul(dy, dy)), Mul(dz, dz)))
  IN  Quot(Mul(20, Mul(Mul(electrostaticCoefficient, p1.charge), p2.charge)),
           Add(distance, EnergySoftening))

\* lines 63-86, from the pair (i, j) on
RECURSIVE PotentialEnergyLoop(_, _, _)
PotentialEnergyLoop(ps, i, j) ==
  IF i > Len(ps) THEN 0
  ELSE IF ps[i].isPhoton \/ j > Len(ps) THEN PotentialEnergyLoop(ps, i + 1, i + 2)
  ELSE IF ps[j].isPhoton THEN PotentialEnergyLoop(ps, i, j + 1)
  ELSE Add(PairPotentialEnergy(ps[i], ps[j]), PotentialEnergyLoop(ps, i, j + 1))

calculateTotalElectrostaticEnergy(ps) == PotentialEnergyLoop(ps, 1, 2)

calculateTotalEnergy(ps) ==
  LET kineticEnergy == calculateTotalKineticEnergy(ps)
      photonEnergy == calculateTotalPhotonEnergy(ps)
      electrostaticEnergy == calculateTotalElectrostaticEnergy(ps)
  IN  [kinetic |-> kineticEnergy,
       photon |-> photonEnergy,
       electrostatic |-> electrostaticEnergy,
       total |-> Add(Add(kineticEnergy, photonEnergy), electrostaticEnergy)]

----------------------------------------------------------------------------
(* Populations and settings the runs start from *)

MaxSeeded == 2

MaxOps == 2

Electron(x, y, z, vx, vy, vz) ==
  Particle(0, x, y, vx, vy, -1, 1, FALSE, z, vz, FALSE, 0)

Proton(x, y, z) == Particle(0, x, y, 0, 0, 1, 100, FALSE, z, 0, FALSE, 0)

\* a photon as an earlier tick left it: emitted with this energy, aged since
Photon(x, y, z, vx, vy, vz, energy, age) ==
  [Particle(0, x, y, vx, vy, 0, 0, FALSE, z, vz, TRUE, energy) EXCEPT !.age = age]

SeedList ==
  << Electron(500, 500, 500, 300, 400, 0),       \*  1 fast, mid-domain
     Electron(500, 500, 500, 0, 0, 0),           \*  2 at rest, same place
     Electron(3, 996, 500, -5, 7, 2),            \*  3 about to leave at a corner
     Proton(498, 500, 500),                      \*  4 next to the electrons
     Proton(-50, 500, 1200),                     \*  5 placed outside the domain
     Photon(501, 500, 500, 3, 0, 0, 90, 100),    \*  6 old enough, 1 away
     Photon(500, 500, 500, 0, -2, 0, 90, 99),    \*  7 too young, 0 away
     Photon(503, 500, 500, -1, 0, 0, 90, 100),   \*  8 old enough, 3 away
     Photon(998, 1, 999, 5, -4, 3, 40, 0),       \*  9 about to hit three walls
     Photon(900, 500, 500, 1500, 0, 0, 40, 0),   \* 10 more than a domain per tick
     Electron(200, 300, 500, 0, 600, 0),         \* 11 fast, far from the others
     Photon(499, 500, 500, -3, 0, 0, 90, 100),   \* 12 old enough, 1 away
     Electron(800, 700, 600, 0, 0, 0) >>         \* 13 at rest, off centre

\* what draw mode adds: a proton or an electron at rest where the user clicks
AddChoices ==
  { Electron(500, 500, 500, 0, 0, 0), Proton(3, 996, 500) }

RECURSIVE SeedsOf(_, _)
SeedsOf(indices, from) ==
  IF from > Len(SeedList) THEN <<>>
  ELSE IF from \in indices THEN <<SeedList[from]>> \o SeedsOf(indices, from + 1)
  ELSE SeedsOf(indices, from + 1)

WithIds(ps) == [i \in 1 .. Len(ps) |-> [ps[i] EXCEPT !.id = i]]

\* the collections of at most MaxSeeded of the seeds named, in list order
Populations(seeds) ==
  { WithIds(SeedsOf(indices, 1)) :
      indices \in {c \in SUBSET seeds : Cardinality(c) <= MaxSeeded} }

\* the collections of at most MaxSeeded + 1 of the seeds named
LargerPopulations(seeds) ==
  { WithIds(SeedsOf(indices, 1)) :
      indices \in {c \in SUBSET seeds : Cardinality(c) <= MaxSeeded + 1} }

\* The Universe constructor's defaults (lines 33-49) and config.js are
\* size 1.0, K_e 1e-3, staticProtons, no strong force, no gravity, 2D,
\* emission not enabled, one photon per electron.  K_e = 1 is 100000.
ExchangeSettings ==
  [size : {1000}, electrostaticCoefficient : {100000},
   staticProtons : {TRUE}, strongForceEnabled : {FALSE},
   gravityEnabled : {FALSE}, groundGravityEnabled : {FALSE}, mode3D : BOOLEAN,
   photonEmissionEnabled : BOOLEAN, onePhotonPerElectron : BOOLEAN]

BoundarySettings ==
  [size : {1000}, electrostaticCoefficient : {100, 100000},
   staticProtons : BOOLEAN, strongForceEnabled : {FALSE},
   gravityEnabled : {FALSE}, groundGravityEnabled : BOOLEAN, mode3D : BOOLEAN,
   photonEmissionEnabled : {FALSE}, onePhotonPerElectron : {TRUE}]

\* absorptions whose square roots are whole numbers: an electron at rest or
\* moving, in the plane or along z, and photons of energy 90, 160 and 750
\* within reach of it
ConservationPopulations ==
  { WithIds(ps) :
      ps \in { << Electron(500, 500, 500, 0, 0, 0),
                  Photon(501, 500, 500, 3, 0, 0, 90, 100) >>,
               << Electron(500, 500, 500, 0, 0, 0),
                  Photon(501, 500, 500, 3, 0, 0, 90, 100),
                  Photon(499, 500, 500, -3, 0, 0, 160, 100) >>,
               << Photon(499, 500, 500, -3, 0, 0, 160, 100),
                  Electron(500, 500, 500, 0, 0, 0) >>,
               << Electron(500, 500, 500, 3, 4, 0),
                  Photon(501, 500, 500, 3, 0, 0, 750, 100) >>,
               << Electron(500, 500, 500, 0, 0, 4),
                  Photon(501, 500, 500, 3, 0, 0, 90, 100) >>,
               << Proton(498, 500, 500),
                  Electron(500, 500, 500, 0, 3, 4),
                  Photon(501, 500, 500, 3, 0, 0, 750, 100) >>,
               \* emitters: an electron, and a negative charge of mass 2
               << Electron(500, 500, 500, 300, 400, 0) >>,
               << Particle(0, 200, 300, 300, 400, -1, 2, FALSE, 500, 0,
                           FALSE, 0) >> } }

\* no force at all, so that only the photon subsystems change a velocity
ConservationSettings ==
  [size : {1000}, electrostaticCoefficient : {0},
   staticProtons : {TRUE}, strongForceEnabled : {FALSE},
   gravityEnabled : {FALSE}, groundGravityEnabled : {FALSE}, mode3D : BOOLEAN,
   photonEmissionEnabled : BOOLEAN, onePhotonPerElectron : {TRUE}]

\* new Particle(..., fixed = true, ...)
Fixed(particle) == [particle EXCEPT !.fixed = TRUE]

\* fixed particles and positive charges among particles that act on them:
\* a fixed electron at rest next to a photon it can absorb and a proton
\* outside the domain, a fixed fast electron, a fixed proton that has a
\* velocity, a fixed photon
FixedPopulations ==
  { WithIds(ps) :
      ps \in { << Fixed(Electron(500, 500, 500, 0, 0, 0)),
                  Photon(501, 500, 500, 3, 0, 0, 90, 100),
                  Proton(-50, 500, 1200) >>,
               << Fixed(Electron(500, 500, 500, 300, 400, 0)),
                  Electron(503, 500, 500, 0, 0, 0) >>,
               << [Fixed(Proton(498, 500, 500)) EXCEPT !.vx = 5],
                  Electron(500, 500, 500, 0, 0, 0) >>,
               << Proton(498, 500, 500),
                  Electron(3, 996, 500, -5, 7, 2) >>,
               << Fixed(Photon(900, 500, 500, 5, 0, 0, 40, 0)),
                  Fixed(Electron(500, 500, 500, 0, 0, 0)) >> } }

\* every force that has a switch, on or off
FixedSettings ==
  [size : {1000}, electrostaticCoefficient : {100000},
   staticProtons : BOOLEAN, strongForceEnabled : {FALSE},
   gravityEnabled : BOOLEAN, groundGravityEnabled : BOOLEAN, mode3D : BOOLEAN,
   photonEmissionEnabled : {TRUE}, onePhotonPerElectron : {TRUE}]

\* gravity on, in a domain of size 1.0 and in one of size 2.0
GravitySettings ==
  [size : {1000, 2000}, electrostaticCoefficient : {100000},
   staticProtons : {TRUE}, strongForceEnabled : {FALSE},
   gravityEnabled : {TRUE}, groundGravityEnabled : {FALSE}, mode3D : BOOLEAN,
   photonEmissionEnabled : {FALSE}, onePhotonPerElectron : {TRUE}]

\* absorption sweeps, in both modes
AbsorptionSettings ==
  [size : {1000}, electrostaticCoefficient : {100000},
   staticProtons : {TRUE}, strongForceEnabled : {FALSE},
   gravityEnabled : {FALSE}, groundGravityEnabled : {FALSE}, mode3D : BOOLEAN,
   photonEmissionEnabled : BOOLEAN, onePhotonPerElectron : {TRUE}]

\* emission configured on, with and without the one-photon policy
EmissionSettings ==
  [size : {1000}, electrostaticCoefficient : {100000},
   staticProtons : {TRUE}, strongForceEnabled : {FALSE},
   gravityEnabled : {FALSE}, groundGravityEnabled : {FALSE}, mode3D : BOOLEAN,
   photonEmissionEnabled : {TRUE}, onePhotonPerElectron : BOOLEAN]

\* K_e = 0 and no other force
EnergySettings ==
  [size : {1000}, electrostaticCoefficient : {0},
   staticProtons : BOOLEAN, strongForceEnabled : {FALSE},
   gravityEnabled : {FALSE}, groundGravityEnabled : {FALSE}, mode3D : BOOLEAN,
   photonEmissionEnabled : {FALSE}, onePhotonPerElectron : {TRUE}]

RunSettings ==
  [size : {1000}, electrostaticCoefficient : {100000},
   staticProtons : {TRUE}, strongForceEnabled : {FALSE},
   gravityEnabled : {FALSE}, groundGravityEnabled : {TRUE}, mode3D : BOOLEAN,
   photonEmissionEnabled : BOOLEAN, onePhotonPerElectron : {TRUE}]

ForceSettings ==
  [size : {1000}, electrostaticCoefficient : {100000},
   staticProtons : {FALSE}, strongForceEnabled : BOOLEAN,
   gravityEnabled : BOOLEAN, groundGravityEnabled : BOOLEAN, mode3D : BOOLEAN,
   photonEmissionEnabled : {FALSE}, onePhotonPerElectron : {TRUE}]

----------------------------------------------------------------------------
(* The state machine *)

\* a Universe as constructed, configured and seeded
SeededWith(settings, populations) ==
  /\ \E s \in settings :
       /\ size = s.size
       /\ electrostaticCoefficient = s.electrostaticCoefficient
       /\ staticProtons = s.staticProtons
       /\ strongForceEnabled = s.strongForceEnabled
       /\ gravityEnabled = s.gravityEnabled
       /\ groundGravityEnabled = s.groundGravityEnabled
       /\ mode3D = s.mode3D
       /\ photonEmissionEnabled = s.photonEmissionEnabled
       /\ onePhotonPerElectron = s.onePhotonPerElectron
  /\ particles \in populations
  /\ ticks = 0
  /\ op = "init"
  /\ pre = <<>>
  /\ afterAbsorb = <<>>
  /\ afterEmit = <<>>
  /\ pairForces = <<>>
  /\ netForces = <<>>
  /\ mode3DState = mode3D
  /\ mode3DDisabled = FALSE
  /\ universeNo = 1
  /\ setMode3DOn = 0

Seeded(settings, seeds) == SeededWith(settings, Populations(seeds))

\* one Universe, its generator free
InitFrom(settings, seeds) ==
  /\ Seeded(settings, seeds)
  /\ twin = <<>>
  /\ tape = <<>>
  /\ owed = 0

\* photon exchange: electrons, a proton and photons near them
Init == InitFrom(ExchangeSettings, {1, 2, 4, 6, 7, 8})

\* the domain boundary: particles at, beyond and crossing it
InitBoundary == InitFrom(BoundarySettings, {2, 3, 9, 10})

\* force accumulation: charges at and near one place, with a photon
InitForces == InitFrom(ForceSettings, {1, 2, 4, 5, 7})

\* emission sweeps: two fast electrons, one at rest, a photon it can absorb
InitEmission == InitFrom(EmissionSettings, {1, 2, 6, 11})

\* absorption sweeps: up to three photons, two of them in reach of the
\* electron at rest, one not
InitAbsorption ==
  /\ SeededWith(AbsorptionSettings, LargerPopulations({2, 6, 8, 12}))
  /\ twin = <<>>
  /\ tape = <<>>
  /\ owed = 0

\* energy exchange between photons and electrons, every force off
InitConservation ==
  /\ SeededWith(ConservationSettings, ConservationPopulations)
  /\ twin = <<>>
  /\ tape = <<>>
  /\ owed = 0

\* gravity: particles at rest at and around (0.5, 0.5, 0.5)
InitGravity == InitFrom(GravitySettings, {2, 4, 11, 13})

\* fixed particles and static protons under forces
InitFixed ==
  /\ SeededWith(FixedSettings, FixedPopulations)
  /\ twin = <<>>
  /\ tape = <<>>
  /\ owed = 0

\* particles at rest with every force off
InitEnergy == InitFrom(EnergySettings, {2, 4, 5})

\* two Universes in identical initial state
InitRuns ==
  /\ Seeded(RunSettings, {1, 4, 9})
  /\ twin = particles
  /\ tape = <<>>
  /\ owed = 0

\* a Particle object not in the collection before the operation
RECURSIVE MaxId(_, _)
MaxId(ps, i) ==
  IF i > Len(ps) THEN 0
  ELSE LET m == MaxId(ps, i + 1) IN IF ps[i].id > m THEN ps[i].id ELSE m

FreshId(ps) == MaxId(ps, 1) + 1

AddParticle(particle) ==
  /\ ticks < MaxOps
  /\ particles' = Append(particles, [particle EXCEPT !.id = FreshId(particles)])
  /\ ticks' = ticks + 1
  /\ op' = "addParticle"
  /\ pre' = particles
  /\ afterAbsorb' = <<>>
  /\ afterEmit' = <<>>
  /\ pairForces' = <<>>
  /\ netForces' = <<>>
  /\ UNCHANGED <<universe, secondRun, application>>

\* a filter that drops the negative charges only
KeepsNonNegative(p) == p.charge >= 0

\* line 57: the filter's predicate
KeepsParticle(p) == p.charge > 0

removeAllElectrons(ps) == SelectSeq(ps, KeepsParticle)

RemoveAllElectrons ==
  /\ ticks < MaxOps
  /\ particles' = removeAllElectrons(particles)
  /\ ticks' = ticks + 1
  /\ op' = "removeAllElectrons"
  /\ pre' = particles
  /\ afterAbsorb' = <<>>
  /\ afterEmit' = <<>>
  /\ pairForces' = <<>>
  /\ netForces' = <<>>
  /\ UNCHANGED <<universe, secondRun, application>>

\* the visible region of part_000 lines 525-531 at zoom level 2, centred on
\* the domain or on its upper left quarter
ZoomViews ==
  { [minX |-> 250, maxX |-> 750, minY |-> 250, maxY |-> 750],
    [minX |-> 0, maxX |-> 500, minY |-> 500, maxY |-> 1000] }

\* part_000 lines 534-537: the filter's predicate
InsideZoom(view, particle) ==
  /\ Ge(particle.x, view.minX) /\ Le(particle.x, view.maxX)
  /\ Ge(particle.y, view.minY) /\ Le(particle.y, view.maxY)

handleDeleteOutsideZoom(ps, view) ==
  SelectSeq(ps, LAMBDA particle : InsideZoom(view, particle))

HandleDeleteOutsideZoom(view) ==
  /\ ticks < MaxOps
  /\ particles' = handleDeleteOutsideZoom(particles, view)
  /\ ticks' = ticks + 1
  /\ op' = "deleteOutsideZoom"
  /\ pre' = particles
  /\ afterAbsorb' = <<>>
  /\ afterEmit' = <<>>
  /\ pairForces' = <<>>
  /\ netForces' = <<>>
  /\ UNCHANGED <<universe, secondRun, application>>

\* the photons some electron can absorb: their sweep may draw a direction
NeedsDirection(ps) ==
  { i \in 1 .. Len(ps) :
      /\ ps[i].isPhoton
      /\ \E j \in 1 .. Len(ps) :
           /\ ~(ps[j].charge >= 0 \/ ps[j].isPhoton)
           /\ PhotonCollides(ps[i], ps[j]) }

\* the electrons shouldEmitPhoton is called for: each takes one draw
NeedsDraw(ps) == { i \in 1 .. Len(ps) : ~EmissionSkips(ps[i]) }

\* step(), lines 733-824.  Each phase's result is bound once and handed on.
\* a tick that runs the emission sweep before the absorption sweep
StepEmitsFirst ==
  /\ ticks < MaxOps
  /\ \E drawChoice \in [NeedsDraw(particles) -> Draws] :
     \E emitted \in
        { checkAndEmitPhotons(particles,
            [i \in 1 .. Len(particles) |->
               IF i \in DOMAIN drawChoice THEN drawChoice[i] ELSE 0],
            FreshId(particles)) } :
     \E dirChoice \in [NeedsDirection(emitted.ps) -> DirectionsOf(mode3D)] :
     \E absorbed \in
        { handlePhotonElectronCollisions(emitted.ps,
            [i \in 1 .. Len(emitted.ps) |->
               IF i \in DOMAIN dirChoice THEN dirChoice[i]
               ELSE DefaultDirection]) } :
     \E tracked \in { ResetForceTracking(absorbed.ps) } :
     \E pairwise \in { PairwiseForces(tracked) } :
     \E forces \in { GroundGravityLoop(tracked, GravityLoop(tracked, pairwise)) } :
       /\ tape # <<>> =>
            (dirChoice = Head(tape).dirs /\ drawChoice = Head(tape).draws)
       /\ afterAbsorb' = absorbed.ps
       /\ afterEmit' = emitted.ps
       /\ pairForces' = pairwise
       /\ netForces' = forces
       /\ particles' = MoveAll(tracked, forces)
  /\ ticks' = ticks + 1
  /\ op' = "step"
  /\ pre' = particles
  /\ tape' = IF tape = <<>> THEN tape ELSE Tail(tape)
  /\ owed' = IF owed > 0 THEN owed - 1 ELSE owed
  /\ UNCHANGED <<universe, twin, application>>

\* While the tape holds draws, the generator returns the tape's next draws.
Step ==
  /\ ticks < MaxOps
  /\ \E dirChoice \in [NeedsDirection(particles) -> DirectionsOf(mode3D)] :
     \E absorbed \in
        { handlePhotonElectronCollisions(particles,
            [i \in 1 .. Len(particles) |->
               IF i \in DOMAIN dirChoice THEN dirChoice[i]
               ELSE DefaultDirection]) } :
     \E drawChoice \in [NeedsDraw(absorbed.ps) -> Draws] :
     \E emitted \in
        { checkAndEmitPhotons(absorbed.ps,
            [i \in 1 .. Len(absorbed.ps) |->
               IF i \in DOMAIN drawChoice THEN drawChoice[i] ELSE 0],
            FreshId(particles)) } :
     \E tracked \in { ResetForceTracking(emitted.ps) } :
     \E pairwise \in { PairwiseForces(tracked) } :
     \E forces \in { GroundGravityLoop(tracked, GravityLoop(tracked, pairwise)) } :
       /\ tape # <<>> =>
            (dirChoice = Head(tape).dirs /\ drawChoice = Head(tape).draws)
       /\ afterAbsorb' = absorbed.ps
       /\ afterEmit' = emitted.ps
       /\ pairForces' = pairwise
       /\ netForces' = forces
       /\ particles' = MoveAll(tracked, forces)
  /\ ticks' = ticks + 1
  /\ op' = "step"
  /\ pre' = particles
  /\ tape' = IF tape = <<>> THEN tape ELSE Tail(tape)
  /\ owed' = IF owed > 0 THEN owed - 1 ELSE owed
  /\ UNCHANGED <<universe, twin, application>>

----------------------------------------------------------------------------
(* runSteps, and a second Universe to run it on *)

\* the draws of one tick, as the arrays the sweeps index
DirsOf(ps, dirChoice) ==
  [i \in 1 .. Len(ps) |->
     IF i \in DOMAIN dirChoice THEN dirChoice[i] ELSE DefaultDirection]

DrawsOf(ps, drawChoice) ==
  [i \in 1 .. Len(ps) |-> IF i \in DOMAIN drawChoice THEN drawChoice[i] ELSE 0]

Absorbed(ps, dirChoice) ==
  handlePhotonElectronCollisions(ps, DirsOf(ps, dirChoice)).ps

\* step() on the collection ps with the generator returning these draws
step(ps, dirChoice, drawChoice) ==
  LET absorbed == Absorbed(ps, dirChoice)
      emitted == checkAndEmitPhotons(absorbed, DrawsOf(absorbed, drawChoice),
                                     FreshId(ps)).ps
      tracked == ResetForceTracking(emitted)
  IN  MoveAll(tracked, NetForces(tracked))

\* every way one step() can go: the collection it leaves and the draws it
\* took, among them the draw of line 735, known by whether the tick logged
StepOutcomes(ps) ==
  UNION { { [ps |-> step(ps, dirChoice, drawChoice),
             draws |-> [dirs |-> dirChoice, draws |-> drawChoice, log |-> log]] :
               drawChoice \in [NeedsDraw(Absorbed(ps, dirChoice)) -> Draws],
               log \in BOOLEAN } :
          dirChoice \in [NeedsDirection(ps) -> DirectionsOf(mode3D)] }

\* a loop that runs once more than asked
RunLoopInclusive(i, n) == i <= n

\* line 830: i < n
RunLoopContinues(i, n) == i < n

\* lines 830-832 from iteration i on, the generator free: every collection
\* the loop can leave, with the draws taken on the way
RECURSIVE RunOutcomes(_, _, _, _)
RunOutcomes(ps, i, n, taken) ==
  IF RunLoopContinues(i, n)
  THEN UNION { RunOutcomes(o.ps, i + 1, n, Append(taken, o.draws)) :
                 o \in StepOutcomes(ps) }
  ELSE { [ps |-> ps, tape |-> taken] }

\* lines 830-832 from iteration i on, the generator returning draws[i + 1],
\* draws[i + 2], ...
RECURSIVE runSteps(_, _, _, _)
runSteps(ps, i, n, draws) ==
  IF RunLoopContinues(i, n)
  THEN runSteps(step(ps, draws[i + 1].dirs, draws[i + 1].draws), i + 1, n, draws)
  ELSE ps

\* runSteps(n) on the second Universe
RunSteps(n) ==
  /\ ticks < MaxOps
  /\ owed = 0
  /\ tape = <<>>
  /\ \E outcome \in RunOutcomes(twin, 0, n, <<>>) :
       /\ twin' = outcome.ps
       /\ tape' = outcome.tape
  /\ owed' = n
  /\ ticks' = ticks + 1
  /\ op' = "runSteps"
  /\ pre' = particles
  /\ afterAbsorb' = <<>>
  /\ afterEmit' = <<>>
  /\ pairForces' = <<>>
  /\ netForces' = <<>>
  /\ UNCHANGED <<universe, particles, application>>

\* runSteps on the first Universe, for the ticks it is behind, with the
\* generator seeded as it was for the second
RunStepsAgain ==
  /\ ticks < MaxOps
  /\ owed > 0
  /\ particles' = runSteps(particles, 0, owed, tape)
  /\ tape' = <<>>
  /\ owed' = 0
  /\ ticks' = ticks + 1
  /\ op' = "runStepsAgain"
  /\ pre' = particles
  /\ afterAbsorb' = <<>>
  /\ afterEmit' = <<>>
  /\ pairForces' = <<>>
  /\ netForces' = <<>>
  /\ UNCHANGED <<universe, twin, application>>

Next ==
  \/ Step
  \/ \E particle \in AddChoices : AddParticle(particle)
  \/ RemoveAllElectrons
  \/ \E view \in ZoomViews : HandleDeleteOutsideZoom(view)

Spec == Init /\ [][Next]_vars

SpecBoundary == InitBoundary /\ [][Next]_vars

SpecForces == InitForces /\ [][Next]_vars

SpecEnergy == InitEnergy /\ [][Next]_vars

SpecEmission == InitEmission /\ [][Next]_vars

SpecAbsorption == InitAbsorption /\ [][Next]_vars

SpecConservation == InitConservation /\ [][Next]_vars

SpecGravity == InitGravity /\ [][Next]_vars

SpecFixed == InitFixed /\ [][Next]_vars

\* the second Universe runs ahead with runSteps; the first follows it tick
\* by tick with step(), or in one call of runSteps
NextRuns ==
  \/ \E n \in 0 .. MaxOps : RunSteps(n)
  \/ (owed > 0 /\ Step)
  \/ RunStepsAgain

SpecRuns == InitRuns /\ [][NextRuns]_vars

----------------------------------------------------------------------------
(* The application (src/unnamed/part_000): the handlers that build a Universe *)

\* new Universe(1.0, ...): no particles, mode3D false, setMode3D never called
NewUniverse == [particles |-> <<>>, mode3D |-> FALSE, setMode3DOn |-> -1]

\* physics.js lines 859-861, with the length of the collection it was
\* called on
setMode3D(u, enabled) ==
  [u EXCEPT !.mode3D = enabled, !.setMode3DOn = Len(u.particles)]

\* the addParticle loops of lines 68-99 and 396-414
Seed(u, seeds) == [u EXCEPT !.particles = WithIds(@ \o seeds)]

\* what the loops add for protonCount and electronCount in {0, 1}: a proton
\* in the middle square, an electron at rest on the ring around the centre
AppSeedings ==
  { <<>>,
    <<Proton(498, 500, 500)>>,
    <<Proton(498, 500, 500), Electron(800, 500, 500, 0, 0, 0)>> }

\* a handler that seeds the new Universe before it sets its mode
SeedBeforeMode(enabled, seeds) == setMode3D(Seed(NewUniverse, seeds), enabled)

\* lines 55-100 and 383-414: construct, set the mode, then add the particles
InitializeUniverse(enabled, seeds) == Seed(setMode3D(NewUniverse, enabled), seeds)

\* universeRef.current = universe (lines 102, 416, 447)
Install(u, name) ==
  /\ ticks < MaxOps
  /\ particles' = u.particles
  /\ mode3D' = u.mode3D
  /\ setMode3DOn' = u.setMode3DOn
  /\ universeNo' = universeNo + 1
  /\ ticks' = ticks + 1
  /\ op' = name
  /\ pre' = particles
  /\ afterAbsorb' = <<>>
  /\ afterEmit' = <<>>
  /\ pairForces' = <<>>
  /\ netForces' = <<>>
  /\ UNCHANGED <<size, electrostaticCoefficient, staticProtons,
                 strongForceEnabled, gravityEnabled, groundGravityEnabled,
                 photonEmissionEnabled, onePhotonPerElectron, secondRun>>

\* The checkbox of lines 987-1000: onChange sets the React state, the
\* component renders with the Universe it still holds, and the effect of
\* lines 54-104 (dependency [mode3D]) then builds the next Universe.
ToggleMode3D(seeds) ==
  /\ ~mode3DDisabled
  /\ mode3DState' = ~mode3DState
  /\ mode3DDisabled' = (Len(particles) > 0)
  /\ Install(InitializeUniverse(~mode3DState, seeds), "toggleMode3D")

\* lines 376-418
HandleReset(seeds) ==
  /\ Install(InitializeUniverse(mode3DState, seeds), "reset")
  /\ UNCHANGED <<mode3DState, mode3DDisabled>>

\* lines 429-449
HandleClearAll ==
  /\ Install(setMode3D(NewUniverse, mode3DState), "clearAll")
  /\ UNCHANGED <<mode3DState, mode3DDisabled>>

\* any other change of React state renders the component again: the
\* checkbox is disabled iff the Universe held now has particles (line 994)
Render ==
  /\ mode3DDisabled' = (Len(particles) > 0)
  /\ mode3DDisabled' # mode3DDisabled
  /\ UNCHANGED <<universe, secondRun, mode3DState, universeNo, setMode3DOn,
                 particles, ticks, op, pre, afterAbsorb, afterEmit,
                 pairForces, netForces>>

\* the App's own settings at mount: K_e = 10 * 1e-6, static protons, 2D
AppSettings ==
  [size : {1000}, electrostaticCoefficient : {1},
   staticProtons : {TRUE}, strongForceEnabled : BOOLEAN,
   gravityEnabled : BOOLEAN, groundGravityEnabled : {FALSE}, mode3D : {FALSE},
   photonEmissionEnabled : {FALSE}, onePhotonPerElectron : {TRUE}]

\* after the first render (universeRef.current null, checkbox enabled) and
\* the first run of the effect
InitApp ==
  /\ \E s \in AppSettings :
       /\ size = s.size
       /\ electrostaticCoefficient = s.electrostaticCoefficient
       /\ staticProtons = s.staticProtons
       /\ strongForceEnabled = s.strongForceEnabled
       /\ gravityEnabled = s.gravityEnabled
       /\ groundGravityEnabled = s.groundGravityEnabled
       /\ photonEmissionEnabled = s.photonEmissionEnabled
       /\ onePhotonPerElectron = s.onePhotonPerElectron
       /\ mode3DState = s.mode3D
  /\ \E seeds \in AppSeedings :
     \E u \in { InitializeUniverse(mode3DState, seeds) } :
       /\ particles = u.particles
       /\ mode3D = u.mode3D
       /\ setMode3DOn = u.setMode3DOn
  /\ mode3DDisabled = FALSE
  /\ universeNo = 1
  /\ ticks = 0
  /\ op = "init"
  /\ pre = <<>>
  /\ afterAbsorb = <<>>
  /\ afterEmit = <<>>
  /\ pairForces = <<>>
  /\ netForces = <<>>
  /\ twin = <<>>
  /\ tape = <<>>
  /\ owed = 0

\* what the user can make the App do to its Universe
NextApp ==
  \/ Step
  \/ \E particle \in AddChoices : AddParticle(particle)
  \/ \E view \in ZoomViews : HandleDeleteOutsideZoom(view)
  \/ \E seeds \in AppSeedings : ToggleMode3D(seeds)
  \/ \E seeds \in AppSeedings : HandleReset(seeds)
  \/ HandleClearAll
  \/ Render

SpecApp == InitApp /\ [][NextApp]_vars

----------------------------------------------------------------------------
(* Vocabulary of the properties.  After a step, pre is the collection the  *)
(* tick started from, afterAbsorb and afterEmit the collection after the   *)
(* absorption and the emission sweep, pairForces and netForces the forces[] *)
(* array after the pairwise loop and as handed to the integrator; the last  *)
(* three are index-aligned with particles.                                  *)

IdsOf(ps) == { ps[i].id : i \in 1 .. Len(ps) }

IsElectron(p) == p.charge < 0 /\ ~p.isPhoton

InDomain(c) == Ge(c, 0) /\ Le(c, size)

Stepped == op = "step"

----------------------------------------------------------------------------
(* Photon emission and absorption *)

\* C1: emission gating.  When the photon-emission configuration is not
\* enabled, a step leaves no particle in the collection that was not there
\* when the tick started, whatever the electrons' speeds and the draws.
C1_NoEmissionWhenDisabled ==
  (Stepped /\ ~photonEmissionEnabled) =>
     /\ IdsOf(particles) \subseteq IdsOf(pre)
     /\ Len(particles) <= Len(pre)
     /\ Len(afterEmit) = Len(afterAbsorb)

\* an electron passed the emission test in a tick with emission not enabled
C1_Witness ==
  /\ Stepped
  /\ ~photonEmissionEnabled
  /\ \E i \in 1 .. Len(afterAbsorb) :
       /\ IsElectron(afterAbsorb[i])
       /\ ~afterAbsorb[i].hasEmittedPhoton
       /\ afterEmit[i].hasEmittedPhoton

\* the electrons the emission sweep of the last tick may have touched
Unflagged(ps) ==
  { i \in 1 .. Len(ps) : IsElectron(ps[i]) /\ ~ps[i].hasEmittedPhoton }

\* C2: one photon per electron.  With the policy on, the emission sweep
\* leaves an electron whose hasEmittedPhoton flag is set exactly as it found
\* it, it creates at most one photon per electron whose flag was not set,
\* and across any operation the flag of a particle that stays in the
\* collection never goes back to false.
C2_OnePhotonPerElectron ==
  onePhotonPerElectron =>
     /\ Stepped =>
          /\ \A i \in 1 .. Len(afterAbsorb) :
               (IsElectron(afterAbsorb[i]) /\ afterAbsorb[i].hasEmittedPhoton)
                  => afterEmit[i] = afterAbsorb[i]
          /\ Len(afterEmit) - Len(afterAbsorb)
                <= Cardinality(Unflagged(afterAbsorb))
     /\ \A i \in 1 .. Len(pre) : \A j \in 1 .. Len(particles) :
          (pre[i].id = particles[j].id /\ pre[i].hasEmittedPhoton)
             => particles[j].hasEmittedPhoton

\* a tick met an electron that had emitted and was still fast enough to
\* pass the emission test on the draw 0
C2_Witness ==
  /\ Stepped
  /\ onePhotonPerElectron
  /\ photonEmissionEnabled
  /\ \E i \in 1 .. Len(afterAbsorb) :
       /\ IsElectron(afterAbsorb[i])
       /\ afterAbsorb[i].hasEmittedPhoton
       /\ shouldEmitPhoton(afterAbsorb[i], 0)

\* the distance test of the absorption rule, on squares: the z term counts
\* in 3D mode only
WithinAbsorptionDistance(photon, electron) ==
  LET dx == Sub(electron.x, photon.x)
      dy == Sub(electron.y, photon.y)
      dz == IF mode3D THEN Sub(electron.z, photon.z) ELSE 0
  IN  Lt(Add(Add(Mul(dx, dx), Mul(dy, dy)), Mul(dz, dz)),
         photonAbsorptionDistance * photonAbsorptionDistance)

\* C3: absorption gating.  A photon that was in the collection when the tick
\* started and is gone after it had, at the start of the tick, an age of at
\* least photonMinAgeForAbsorption and an electron at a distance strictly
\* below photonAbsorptionDistance.
C3_AbsorptionGating ==
  Stepped =>
     \A i \in 1 .. Len(pre) :
        (pre[i].isPhoton /\ pre[i].id \notin IdsOf(particles)) =>
           /\ pre[i].age >= photonMinAgeForAbsorption
           /\ \E j \in 1 .. Len(pre) :
                IsElectron(pre[j]) /\ WithinAbsorptionDistance(pre[i], pre[j])

\* one tick removed a photon and kept a younger one that sat on an electron
C3_Witness ==
  /\ Stepped
  /\ \E i \in 1 .. Len(pre) :
       pre[i].isPhoton /\ pre[i].id \notin IdsOf(particles)
  /\ \E i \in 1 .. Len(pre) : \E j \in 1 .. Len(pre) :
       /\ pre[i].isPhoton
       /\ pre[i].age < photonMinAgeForAbsorption
       /\ IsElectron(pre[j])
       /\ pre[j].x = pre[i].x /\ pre[j].y = pre[i].y /\ pre[j].z = pre[i].z
       /\ pre[i].id \in IdsOf(particles)

----------------------------------------------------------------------------
(* The domain boundary *)

\* the Euler position and velocity of particle i of the last tick, before
\* the boundary handler saw it
Moved(i) ==
  Integrate(afterEmit[i], netForces[i].fx, netForces[i].fy, netForces[i].fz)

\* the boundary handler changed a coordinate of the integrated particle i
Clamped(i) ==
  /\ ~afterEmit[i].isPhoton
  /\ ~IntegratorSkips(afterEmit[i])
  /\ \/ particles[i].x # Moved(i).x
     \/ particles[i].y # Moved(i).y
     \/ particles[i].z # Moved(i).z

\* C4: boundary clamp invariant, as stated.  After a step every particle
\* that is not a photon and not fixed has each of x, y and z in [0, size].
\* Two electrons at one place refute it: their force is 0/0, and the NaN
\* position the integrator computes passes every comparison of the clamp.
C4_InsideDomain ==
  Stepped =>
     \A i \in 1 .. Len(particles) :
        (~particles[i].isPhoton /\ ~particles[i].fixed) =>
           /\ InDomain(particles[i].x)
           /\ InDomain(particles[i].y)
           /\ InDomain(particles[i].z)

Advanced(c, v) == Add(c, Mul(v, dt))

\* C6: photon reflection keeps photons in the domain, as stated.  After a
\* step every photon has each active coordinate in [0, size], whatever its
\* velocity and position.  The handler reflects once per axis: a photon
\* that moves more than a domain length past a wall ends the tick outside.
C6_PhotonInsideDomain ==
  Stepped =>
     \A i \in 1 .. Len(particles) :
        particles[i].isPhoton =>
           /\ InDomain(particles[i].x)
           /\ InDomain(particles[i].y)
           /\ mode3D => InDomain(particles[i].z)

\* a velocity component after the tick against the component before it
SpeedKept(after, before, crossed) ==
  /\ Abs(after) = Abs(before)
  /\ after # before => crossed

\* C7: reflection preserves photon speed.  The absorption and emission
\* sweeps leave the velocity of a photon that stays untouched; the move of
\* the tick keeps the absolute value of each velocity component, and
\* changes a component's sign only if the photon crossed a wall on that
\* axis, which in 2D mode is never the z axis.
C7_PhotonSpeedPreserved ==
  Stepped =>
     /\ \A i \in 1 .. Len(pre) : \A j \in 1 .. Len(afterEmit) :
          (pre[i].isPhoton /\ pre[i].id = afterEmit[j].id) =>
             /\ afterEmit[j].vx = pre[i].vx
             /\ afterEmit[j].vy = pre[i].vy
             /\ afterEmit[j].vz = pre[i].vz
     /\ \A i \in 1 .. Len(particles) :
          particles[i].isPhoton =>
             /\ SpeedKept(particles[i].vx, afterEmit[i].vx,
                  ~InDomain(Advanced(afterEmit[i].x, afterEmit[i].vx)))
             /\ SpeedKept(particles[i].vy, afterEmit[i].vy,
                  ~InDomain(Advanced(afterEmit[i].y, afterEmit[i].vy)))
             /\ SpeedKept(particles[i].vz, afterEmit[i].vz,
                  mode3D /\ ~InDomain(Advanced(afterEmit[i].z, afterEmit[i].vz)))

\* in 2D mode a photon's vx and vy changed sign at the walls it crossed
\* while its vz did not
C7_Witness ==
  /\ Stepped
  /\ ~mode3D
  /\ \E i \in 1 .. Len(particles) :
       /\ particles[i].isPhoton
       /\ afterEmit[i].vx # 0
       /\ particles[i].vx = Neg(afterEmit[i].vx)
       /\ afterEmit[i].vy # 0
       /\ particles[i].vy = Neg(afterEmit[i].vy)
       /\ afterEmit[i].vz # 0
       /\ particles[i].vz = afterEmit[i].vz

----------------------------------------------------------------------------
(* Force accumulation *)

RECURSIVE TotalForce(_, _)
TotalForce(forces, i) ==
  IF i > Len(forces) THEN ZeroForce
  ELSE AddForce(forces[i], TotalForce(forces, i + 1))

\* C8: Newton's third law, as stated.  The pairwise forces accumulated over
\* all particles in a tick sum to zero on every axis.  Two particles at one
\* place refute it: each receives 0/0 on every axis, and NaN - NaN is NaN.
C8_PairwiseForcesSumToZero ==
  Stepped => TotalForce(pairForces, 1) = ZeroForce

NotPhoton(p) == ~p.isPhoton

\* the index of particle i of ps among the non-photons of ps
RankAmongNonPhotons(ps, i) == Cardinality({ k \in 1 .. i : ~ps[k].isPhoton })

\* where a photon that started the tick at c with velocity v may end it
FreeFlight(c, v) ==
  { Advanced(c, v), Neg(Advanced(c, v)), Sub(2 * size, Advanced(c, v)) }

\* C9: photon non-interaction.  In a tick the net force on every
\* non-photon particle equals the net force it receives in the population
\* with the photons deleted; the force accumulated for a photon is zero, and
\* the photon ends the tick where its own velocity takes it, reflected or
\* not, one tick older.
C9_PhotonNonInteraction ==
  Stepped =>
     LET withoutPhotons == NetForces(SelectSeq(afterEmit, NotPhoton))
     IN  \A i \in 1 .. Len(afterEmit) :
            IF afterEmit[i].isPhoton
            THEN /\ netForces[i] = ZeroForce
                 /\ pairForces[i] = ZeroForce
                 /\ particles[i].x \in FreeFlight(afterEmit[i].x, afterEmit[i].vx)
                 /\ particles[i].y \in FreeFlight(afterEmit[i].y, afterEmit[i].vy)
                 /\ particles[i].z \in
                      (IF mode3D
                       THEN FreeFlight(afterEmit[i].z, afterEmit[i].vz)
                       ELSE {afterEmit[i].z})
                 /\ particles[i].age = afterEmit[i].age + 1
            ELSE netForces[i] = withoutPhotons[RankAmongNonPhotons(afterEmit, i)]

\* with the strong force on, a tick moved a photon within the strong force's
\* reach of an electron that another particle pushed
C9_Witness ==
  /\ Stepped
  /\ strongForceEnabled
  /\ \E i \in 1 .. Len(afterEmit) : \E j \in 1 .. Len(afterEmit) :
       /\ afterEmit[i].isPhoton
       /\ IsElectron(afterEmit[j])
       /\ WithinAbsorptionDistance(afterEmit[i], afterEmit[j])
       /\ netForces[j] # ZeroForce
       /\ netForces[j].fx # NaN

----------------------------------------------------------------------------
(* Collection operations *)

\* the place of the particle with this id in ps
PlaceOf(ps, id) == CHOOSE k \in 1 .. Len(ps) : ps[k].id = id

\* C10: removeAllElectrons keeps exactly the particles with charge > 0: each
\* particle left was in the collection with charge > 0 and is unmodified,
\* each particle of the collection with charge > 0 is left, once, and the
\* particles left are in the order they had; electrons and photons are gone.
C10_RemoveAllElectrons ==
  op = "removeAllElectrons" =>
     /\ \A i \in 1 .. Len(particles) :
          /\ particles[i].charge > 0
          /\ \E k \in 1 .. Len(pre) : pre[k] = particles[i]
     /\ \A k \in 1 .. Len(pre) :
          pre[k].charge > 0 =>
             Cardinality({ i \in 1 .. Len(particles) :
                             particles[i].id = pre[k].id }) = 1
     /\ \A i \in 1 .. Len(particles) : \A j \in 1 .. Len(particles) :
          i < j => PlaceOf(pre, particles[i].id) < PlaceOf(pre, particles[j].id)

\* the operation ran on an electron, a photon and a proton and kept the proton
C10_Witness ==
  /\ op = "removeAllElectrons"
  /\ \E k \in 1 .. Len(pre) : IsElectron(pre[k])
  /\ \E k \in 1 .. Len(pre) : pre[k].isPhoton
  /\ \E k \in 1 .. Len(pre) : pre[k].charge > 0
  /\ Len(particles) = 1

----------------------------------------------------------------------------
(* Creation and destruction of particles *)

Created == IdsOf(particles) \ IdsOf(pre)

Destroyed == IdsOf(pre) \ IdsOf(particles)

\* the particle of ps with this id
WithId(ps, id) == ps[PlaceOf(ps, id)]

\* C11, as stated: apart from addParticle, particles are created only by
\* the emission subsystem and destroyed only by the absorption subsystem,
\* so no operation other than addParticle and step changes which particles
\* the collection holds.  removeAllElectrons and the application's
\* delete-outside-zoom both remove particles.
C11_OnlyStepCreatesOrDestroys ==
  op \notin {"init", "addParticle", "step"} =>
     (Created = {} /\ Destroyed = {})

\* C11: who creates and who destroys.  addParticle adds its one particle
\* and removes none.  A step adds only the photons its emission sweep
\* appended and removes only the photons its absorption sweep removed; its
\* force and integration phases add and remove nothing.
\* removeAllElectrons and delete-outside-zoom add nothing: the first
\* removes the particles with charge <= 0, the second those outside the
\* visible region.
C11_CreationAndDestruction ==
  /\ op = "addParticle" =>
       (Cardinality(Created) = 1 /\ Destroyed = {}
          /\ Len(particles) = Len(pre) + 1)
  /\ Stepped =>
       /\ Destroyed = IdsOf(pre) \ IdsOf(afterAbsorb)
       /\ \A id \in Destroyed : WithId(pre, id).isPhoton
       /\ IdsOf(afterAbsorb) \subseteq IdsOf(pre)
       /\ Created = IdsOf(afterEmit) \ IdsOf(afterAbsorb)
       /\ \A id \in Created : WithId(particles, id).isPhoton
       /\ IdsOf(particles) = IdsOf(afterEmit)
       /\ Len(particles) = Cardinality(IdsOf(particles))
  /\ op = "removeAllElectrons" =>
       /\ Created = {}
       /\ \A id \in Destroyed : WithId(pre, id).charge <= 0
  /\ op = "deleteOutsideZoom" => Created = {}

\* one step absorbed a photon and emitted another
C11_Witness ==
  /\ Stepped
  /\ Created # {}
  /\ Destroyed # {}

----------------------------------------------------------------------------
(* Two runs from one initial state *)

C13_RunStepsIsNSteps ==
  (op \in {"runSteps", "step"} /\ owed = 0) =>
     (particles = twin /\ tape = <<>>)

\* the first Universe caught up with a run that changed the collection
C13_Witness ==
  /\ op = "step"
  /\ owed = 0
  /\ particles = twin
  /\ particles # pre

----------------------------------------------------------------------------
(* Energy accounting *)

\* C14: energy accounting, as stated.  For two particles that started at
\* rest, with K_e = 0 and strong force, gravity and ground gravity off, the
\* kinetic and the electrostatic potential energy reported are both exactly
\* 0 in every state, wherever the two particles are and whatever their
\* charges.  Two electrons at one place refute it: the force on each is
\* 0 * (0 / 0), their velocities and positions become NaN, and so do both
\* energies.
C14_EnergiesStayZero ==
  (/\ electrostaticCoefficient = 0
   /\ ~strongForceEnabled /\ ~gravityEnabled /\ ~groundGravityEnabled
   /\ Len(particles) = 2
   /\ \A i \in 1 .. 2 : ~particles[i].isPhoton)
     => /\ calculateTotalKineticEnergy(particles) = 0
        /\ calculateTotalElectrostaticEnergy(particles) = 0

----------------------------------------------------------------------------
(* Photons *)

\* the photons of ps, by id
PhotonIds(ps) == { ps[i].id : i \in { k \in 1 .. Len(ps) : ps[k].isPhoton } }

\* the photon with this id carries the same energy in both collections
SameEnergy(before, after, id) ==
  WithId(after, id).isPhoton /\ WithId(after, id).energy = WithId(before, id).energy

\* C15: every photon of the collection has mass 0, charge 0, the photon
\* flag and an energy that is a number >= 0; and from the operation that
\* put it into the collection to the one that takes it out its energy is
\* the same: no operation and no phase of a tick (absorption sweep,
\* emission sweep, integration and reflection) changes the energy of a
\* photon it keeps.
C15_PhotonInvariants ==
  /\ \A i \in 1 .. Len(particles) :
       particles[i].isPhoton =>
         /\ particles[i].mass = 0
         /\ particles[i].charge = 0
         /\ Ge(particles[i].energy, 0)
  /\ \A id \in PhotonIds(pre) \cap IdsOf(particles) :
       SameEnergy(pre, particles, id)
  /\ Stepped =>
       /\ \A id \in PhotonIds(pre) \cap IdsOf(afterAbsorb) :
            SameEnergy(pre, afterAbsorb, id)
       /\ \A id \in PhotonIds(afterAbsorb) : SameEnergy(afterAbsorb, afterEmit, id)
       /\ \A id \in PhotonIds(afterEmit) : SameEnergy(afterEmit, particles, id)

\* a photon an electron emitted in the tick before flew through this tick:
\* it carries nine tenths of the kinetic energy the electron had
C15_Witness ==
  /\ Stepped
  /\ \E id \in PhotonIds(pre) \cap PhotonIds(particles) :
       /\ WithId(pre, id).age = 1
       /\ WithId(particles, id).age = 2
       /\ WithId(particles, id).energy = 2250000
       /\ \E i \in 1 .. Len(particles) :
            particles[i].charge < 0 /\ particles[i].hasEmittedPhoton

----------------------------------------------------------------------------
(* 3D mode *)

\* the same Universe object is held before and after the step, and it holds
\* particles before
HoldsParticles == universeNo' = universeNo /\ Len(particles) > 0

\* C16: 3D mode is set before any particle is added.  Every call of
\* setMode3D the application makes is on a Universe whose collection is
\* empty, and the mode3D flag of a Universe that holds particles is the
\* same after every operation on it.
C16_Mode3DSetBeforeParticles ==
  /\ [](setMode3DOn = 0)
  /\ [][HoldsParticles => mode3D' = mode3D]_vars

\* the checkbox was switched while the Universe held particles (it had been
\* rendered enabled): the effect built another Universe, set its mode while
\* it was empty, and seeded it
C16_Witness ==
  /\ op = "toggleMode3D"
  /\ Len(pre) > 0
  /\ universeNo = 2
  /\ mode3D /\ mode3DState
  /\ Len(particles) > 0
  /\ setMode3DOn = 0

----------------------------------------------------------------------------
(* The phases of a tick *)

\* the electrons of the collection the emission sweep reduced in this tick
EmittedAt ==
  { i \in 1 .. Len(afterAbsorb) :
      afterEmit[i].hasEmittedPhoton /\ afterEmit[i] # afterAbsorb[i] }

\* C17: the phases of a tick run in the order absorption, emission, force
\* accumulation, integration.  The absorption sweep works on the collection
\* as the tick found it, so a photon emitted in the tick is not in it; the
\* emission sweep works on what absorption left, so an electron that
\* absorbed is evaluated with the speed absorption gave it and a photon it
\* emits carries nine tenths of that kinetic energy; integration moves what
\* emission left, so a photon emitted in the tick ends it moved by one step
\* and with age 1.
C17_PhaseOrder ==
  Stepped =>
    /\ \E dirChoice \in [NeedsDirection(pre) -> DirectionsOf(mode3D)] :
         afterAbsorb = Absorbed(pre, dirChoice)
    /\ \E drawChoice \in [NeedsDraw(afterAbsorb) -> Draws] :
         afterEmit = checkAndEmitPhotons(afterAbsorb,
                                         DrawsOf(afterAbsorb, drawChoice),
                                         FreshId(pre)).ps
    /\ LET tracked == ResetForceTracking(afterEmit)
       IN  /\ netForces = GroundGravityLoop(tracked,
                             GravityLoop(tracked, PairwiseForces(tracked)))
           /\ particles = MoveAll(tracked, netForces)
    /\ \A id \in Created :
         /\ id \notin IdsOf(afterAbsorb)
         /\ WithId(afterEmit, id).age = 0
         /\ WithId(particles, id).age = 1
         /\ WithId(particles, id) =
              applyBoundaryConditions(AdvancePhoton(WithId(afterEmit, id)))
    /\ \A i \in EmittedAt :
         LET speedSquared ==
               SpeedSquared(afterAbsorb[i].vx, afterAbsorb[i].vy,
                            IF mode3D THEN afterAbsorb[i].vz ELSE 0)
         IN  /\ shouldEmitPhoton(afterAbsorb[i], 0)
             /\ photonEmissionEnabled =>
                  \E id \in Created :
                    WithId(afterEmit, id).energy =
                      Quot(Mul(PhotonEnergyRatioNum,
                               HalfMassSpeedSquared(electronMass, speedSquared)),
                           PhotonEnergyRatioDen)

\* an electron at rest absorbed a photon of energy 90, which gave it speed
\* 3; in the same tick it emitted a photon of energy 81, which ends the
\* tick with age 1
C17_Witness ==
  /\ Stepped
  /\ \E i \in EmittedAt :
       /\ \E k \in 1 .. Len(pre) :
            /\ pre[k].id = afterAbsorb[i].id
            /\ SpeedSquared(pre[k].vx, pre[k].vy, pre[k].vz) = 0
       /\ SpeedSquared(afterAbsorb[i].vx, afterAbsorb[i].vy, afterAbsorb[i].vz) = 9
  /\ Destroyed # {}
  /\ \E id \in Created :
       /\ WithId(particles, id).energy = 81
       /\ WithId(particles, id).age = 1

----------------------------------------------------------------------------
(* The emission sweep *)

\* the photons the sweep of this tick appended, by place in afterEmit
AppendedAt == Len(afterAbsorb) + 1 .. Len(afterEmit)

\* the k-th emitting electron of the sweep, in collection order
Emitter(k) ==
  CHOOSE i \in EmittedAt : Cardinality({ j \in EmittedAt : j <= i }) = k

\* v / speedReductionFactor
ReducedOnce(v) == Quot(Mul(v, SpeedReductionDen), SpeedReductionNum)

\* C18: the emission sweep leaves the collection as it found it, apart from
\* the velocity and the flag of the electrons that emitted: every particle
\* keeps its place, each emitting electron was slowed down once, and the
\* photons of the sweep follow the particles that were there, one per
\* emitting electron and in the order of their electrons, each where its
\* electron is; a photon of the sweep was not a source itself.  The
\* collection is longer by the number of photons emitted.
C18_EmissionSweepBuffers ==
  Stepped =>
    /\ Len(afterEmit) =
         Len(afterAbsorb) + (IF photonEmissionEnabled THEN Cardinality(EmittedAt)
                             ELSE 0)
    /\ \A i \in 1 .. Len(afterAbsorb) :
         /\ afterEmit[i].id = afterAbsorb[i].id
         /\ i \notin EmittedAt => afterEmit[i] = afterAbsorb[i]
         /\ i \in EmittedAt =>
              /\ afterAbsorb[i].charge < 0
              /\ afterEmit[i].vx = ReducedOnce(afterAbsorb[i].vx)
              /\ afterEmit[i].vy = ReducedOnce(afterAbsorb[i].vy)
    /\ \A k \in AppendedAt :
         LET photon == afterEmit[k]
             electron == afterEmit[Emitter(k - Len(afterAbsorb))]
         IN  /\ photon.isPhoton
             /\ photon.id \notin IdsOf(afterAbsorb)
             /\ photon.age = 0
             /\ ~photon.hasEmittedPhoton
             /\ photon.x = electron.x /\ photon.y = electron.y
             /\ photon.z = electron.z

\* two electrons at different places emitted in one sweep
C18_Witness ==
  /\ Stepped
  /\ Cardinality(EmittedAt) = 2
  /\ Len(afterEmit) = Len(afterAbsorb) + 2
  /\ afterEmit[Emitter(1)].x # afterEmit[Emitter(2)].x

----------------------------------------------------------------------------
(* The absorption sweep *)

\* the electrons in reach of photon pre[i] when it is old enough.  The
\* sweep moves no particle, so the places are those the tick started with.
Qualifying(i) ==
  { j \in 1 .. Len(pre) :
      pre[j].charge < 0 /\ ~pre[j].isPhoton /\ PhotonCollides(pre[i], pre[j]) }

FirstOf(places) == CHOOSE j \in places : \A k \in places : j <= k

\* the photons whose first qualifying electron is pre[j]
AbsorbedBy(j) ==
  { i \in 1 .. Len(pre) :
      pre[i].isPhoton /\ Qualifying(i) # {} /\ FirstOf(Qualifying(i)) = j }

\* what pre[j] can be after it took the energy of each photon of
\* AbsorbedBy(j) once, in collection order from photon i on
RECURSIVE Fed(_, _, _)
Fed(electron, j, i) ==
  IF i > Len(pre) THEN {electron}
  ELSE IF i \in AbsorbedBy(j)
       THEN UNION { Fed(AbsorbPhoton(electron, pre[i], dir), j, i + 1) :
                      dir \in DirectionsOf(mode3D) }
       ELSE Fed(electron, j, i + 1)

\* C19: in one absorption sweep a photon is absorbed iff some electron is
\* within the absorption distance of it and it is old enough, and then by
\* the first such electron in collection order only: every particle other
\* than a photon ends the sweep as it would after taking, once each, the
\* energy of the photons it is the first qualifying electron of, and of no
\* other photon; a photon nobody absorbs stays as it is; and the
\* collection is shorter by one per absorbed photon.
C19_AbsorbedOnceByFirst ==
  Stepped =>
    /\ \A i \in 1 .. Len(pre) :
         pre[i].isPhoton =>
           IF Qualifying(i) = {}
           THEN /\ pre[i].id \in IdsOf(afterAbsorb)
                /\ WithId(afterAbsorb, pre[i].id) = pre[i]
           ELSE pre[i].id \notin IdsOf(afterAbsorb)
    /\ \A j \in 1 .. Len(pre) :
         ~pre[j].isPhoton =>
           /\ pre[j].id \in IdsOf(afterAbsorb)
           /\ WithId(afterAbsorb, pre[j].id) \in Fed(pre[j], j, 1)
    /\ Len(afterAbsorb) =
         Len(pre) - Cardinality({ i \in 1 .. Len(pre) :
                                    pre[i].isPhoton /\ Qualifying(i) # {} })

\* a photon in reach of two electrons: the first took its energy, the
\* second is as it was
C19_Witness ==
  /\ Stepped
  /\ \E i \in 1 .. Len(pre) :
       /\ pre[i].isPhoton
       /\ Cardinality(Qualifying(i)) = 2
       /\ \E j \in Qualifying(i) :
            /\ j # FirstOf(Qualifying(i))
            /\ WithId(afterAbsorb, pre[j].id) = pre[j]
       /\ WithId(afterAbsorb, pre[FirstOf(Qualifying(i))].id) #
            pre[FirstOf(Qualifying(i))]

----------------------------------------------------------------------------
(* Removal of the absorbed photons *)

\* the places the sweep of this tick scheduled, in the order it found them;
\* the schedule does not depend on the directions drawn
Scheduled == PhotonLoop(pre, 1, <<>>, DirsOf(pre, <<>>)).photonsToRemove

ScheduledIds == { pre[Scheduled[k]].id : k \in 1 .. Len(Scheduled) }

IdSeq(ps) == [k \in 1 .. Len(ps) |-> ps[k].id]

----------------------------------------------------------------------------
(* Energy conservation of the photon subsystems *)

\* the kinetic energy calculateTotalKineticEnergy adds up for one particle
ReportedKE(particle) == calculateTotalKineticEnergy(<<particle>>)

\* the sum of the energies of the photons of pre at these places
RECURSIVE EnergyOf(_)
EnergyOf(places) ==
  IF places = {} THEN 0
  ELSE LET i == CHOOSE k \in places : TRUE
       IN  Add(pre[i].energy, EnergyOf(places \ {i}))

\* C21, as stated: after the absorption sweep every electron's reported
\* kinetic energy is what it was before the sweep plus the energies of the
\* photons it absorbed, and kinetic plus photon energy of the collection is
\* what it was, in 2D and in 3D mode.  In 2D mode the sweep measures the
\* electron's speed with vz but scales vx and vy only, while the accounting
\* leaves vz out: an electron moving along z refutes it.
C21_AbsorptionConservesEnergy ==
  Stepped =>
    /\ \A j \in 1 .. Len(pre) :
         (pre[j].charge < 0 /\ ~pre[j].isPhoton) =>
           ReportedKE(WithId(afterAbsorb, pre[j].id)) =
             Add(ReportedKE(pre[j]), EnergyOf(AbsorbedBy(j)))
    /\ Add(calculateTotalKineticEnergy(afterAbsorb),
           calculateTotalPhotonEnergy(afterAbsorb)) =
         Add(calculateTotalKineticEnergy(pre), calculateTotalPhotonEnergy(pre))

\* what the truncation of the reduced velocity components, and the four
\* digits of the reduction factor, can make of the kinetic energy kept
RoundingSlack(electron) ==
  electron.mass * (7 * (Abs(electron.vx) + Abs(electron.vy) + Abs(electron.vz)) + 30)
    + ReportedKE(electron) \div 1000

\* after is before / speedReductionFactor, to one velocity unit: the
\* direction is kept and the square is a tenth
KeepsTenth(before, after) ==
  /\ Abs(after * SpeedReductionNum - before * SpeedReductionDen) < SpeedReductionNum
  /\ (before >= 0 => after >= 0) /\ (before <= 0 => after <= 0)

\* C22, as stated: when an electron emits with emission enabled, the
\* photon's energy is nine tenths of the kinetic energy the electron had,
\* the electron keeps its direction and a tenth of its squared speed, and
\* the electron's kinetic energy after emission plus the photon's energy is
\* its kinetic energy before, whatever the electron's mass.  Equalities of
\* velocities hold to the velocity unit.  The energy split is computed with
\* the constant electronMass: a negative charge of mass 2 refutes it.
C22_EmissionConservesEnergy ==
  (Stepped /\ photonEmissionEnabled) =>
    \A k \in AppendedAt :
      LET i == Emitter(k - Len(afterAbsorb))
          before == afterAbsorb[i]
          after == afterEmit[i]
          photon == afterEmit[k]
      IN  /\ Mul(PhotonEnergyRatioDen, photon.energy) =
               Mul(PhotonEnergyRatioNum, ReportedKE(before))
          /\ KeepsTenth(before.vx, after.vx)
          /\ KeepsTenth(before.vy, after.vy)
          /\ mode3D => KeepsTenth(before.vz, after.vz)
          /\ Abs(Sub(Add(ReportedKE(after), photon.energy), ReportedKE(before)))
               <= RoundingSlack(before)

----------------------------------------------------------------------------
(* The emission phase when emission is disabled *)

\* C23, as stated: with emission disabled the emission phase does nothing:
\* it creates no photon and leaves the velocity and the hasEmittedPhoton
\* flag of every electron as they were, whatever the speed and the draw.
\* The configuration is read only where the photon would be created: a
\* fast electron is slowed down and flagged all the same.
C23_DisabledEmissionSkipped ==
  (Stepped /\ ~photonEmissionEnabled) =>
    /\ Len(afterEmit) = Len(afterAbsorb)
    /\ \A i \in 1 .. Len(afterAbsorb) :
         /\ afterEmit[i].vx = afterAbsorb[i].vx
         /\ afterEmit[i].vy = afterAbsorb[i].vy
         /\ afterEmit[i].vz = afterAbsorb[i].vz
         /\ afterEmit[i].hasEmittedPhoton = afterAbsorb[i].hasEmittedPhoton

----------------------------------------------------------------------------
(* The speed the emission test uses *)

\* the speed checkAndEmitPhotons hands to managePhotonEmission: without vz
\* in 2D mode
SplitSpeed(particle) ==
  Sqrt(SpeedSquared(particle.vx, particle.vy,
                    IF mode3D THEN particle.vz ELSE 0))

\* C24, as stated: an electron emits only if the speed that splits its
\* energy and normalises the photon's direction is at least the threshold;
\* so that speed is strictly positive whenever emission happens, and the
\* velocity of the photon is a number.  The test is made on the speed with
\* vz, the split on the speed without it in 2D mode: an electron moving
\* along z emits with split speed 0, and its photon's velocity is 0 / 0.
C24_EmissionSpeedTested ==
  Stepped =>
    /\ \A i \in EmittedAt :
         /\ Ge(Mul(SplitSpeed(afterAbsorb[i]), ThresholdDen), ThresholdNum)
         /\ Gt(SplitSpeed(afterAbsorb[i]), 0)
    /\ \A k \in AppendedAt :
         /\ afterEmit[k].vx # NaN
         /\ afterEmit[k].vy # NaN
         /\ afterEmit[k].vz # NaN

----------------------------------------------------------------------------
(* Particles the integrator skips *)

\* the collection as the integration phase of this tick found it
BeforeIntegration == ResetForceTracking(afterEmit)

\* C25, as stated: a non-photon particle that is fixed, or that has a
\* positive charge while staticProtons is on, is skipped by the integrator
\* entirely: the integration phase leaves its position, its velocity and
\* its diagnostic fields (force and acceleration) as it found them.  The
\* force is stored before the tests that skip the particle: a static proton
\* next to an electron ends the tick with the net force in its fields.
C25_SkippedParticleUntouched ==
  Stepped =>
    \A i \in 1 .. Len(afterEmit) :
      (~afterEmit[i].isPhoton /\ IntegratorSkips(afterEmit[i])) =>
        particles[i] = BeforeIntegration[i]

----------------------------------------------------------------------------
(* Photon age *)

\* the particle with this id has the same age in both collections
SameAge(before, after, id) == WithId(after, id).age = WithId(before, id).age

\* C26: a tick adds exactly 1 to the age of every photon that is in the
\* collection when the integration phase runs, the photons emitted in the
\* tick included: they are created with age 0 and end the tick with age 1.
\* The absorption and the emission sweep change no age, the integration
\* phase changes the age of no other particle, and no operation makes an
\* age smaller.
C26_PhotonAge ==
  /\ \A id \in IdsOf(pre) \cap IdsOf(particles) :
       WithId(particles, id).age >= WithId(pre, id).age
  /\ Stepped =>
       /\ \A id \in IdsOf(afterAbsorb) :
            SameAge(pre, afterAbsorb, id) /\ SameAge(afterAbsorb, afterEmit, id)
       /\ \A id \in Created : WithId(afterEmit, id).age = 0
       /\ \A i \in 1 .. Len(afterEmit) :
            particles[i].age =
              IF afterEmit[i].isPhoton THEN afterEmit[i].age + 1
                                       ELSE afterEmit[i].age

\* a tick in which an electron emitted: its photon has age 1, the photon
\* that was 99 ticks old is 100 ticks old, the electron's age is still 0
C26_Witness ==
  /\ Stepped
  /\ \E id \in Created : WithId(particles, id).age = 1
  /\ \E id \in IdsOf(pre) :
       /\ WithId(pre, id).isPhoton /\ WithId(pre, id).age = 99
       /\ id \in IdsOf(particles) /\ WithId(particles, id).age = 100
  /\ \E i \in EmittedAt : particles[i].age = 0

----------------------------------------------------------------------------
(* Zero separation *)

IsNumber(a) == a # NaN

FiniteForce(force) == IsNumber(force.fx) /\ IsNumber(force.fy) /\ IsNumber(force.fz)

FiniteMotion(particle) ==
  /\ IsNumber(particle.x) /\ IsNumber(particle.y) /\ IsNumber(particle.z)
  /\ IsNumber(particle.vx) /\ IsNumber(particle.vy) /\ IsNumber(particle.vz)

\* C27, as stated: the electrostatic force of every pair of non-photon
\* particles the tick computes it for is a defined, finite vector, two
\* particles at one place included, and a particle whose position and
\* velocity were numbers when the forces were computed has numbers there
\* after the tick.  The softening is in the magnitude only: the direction
\* is dx / distance, which is 0 / 0 at zero separation.
C27_ForceDefinedAtZeroSeparation ==
  Stepped =>
    /\ \A i, j \in 1 .. Len(afterEmit) :
         (i < j /\ ~afterEmit[i].isPhoton /\ ~afterEmit[j].isPhoton
            /\ FiniteMotion(afterEmit[i]) /\ FiniteMotion(afterEmit[j])) =>
           FiniteForce(calculateElectrostaticForce(afterEmit[i], afterEmit[j]))
    /\ \A i \in 1 .. Len(afterEmit) :
         (~afterEmit[i].isPhoton /\ FiniteMotion(afterEmit[i])) =>
           FiniteMotion(particles[i])

----------------------------------------------------------------------------
(* Gravity *)

\* a force component that points the way of the offset: never against it,
\* and zero when the offset is zero (a small component may be zero on the
\* grid)
PointsAlong(component, offset) ==
  /\ IsNumber(component)
  /\ component * offset >= 0
  /\ offset = 0 => component = 0

\* C28, as stated: whatever the size of the domain, the gravity force on a
\* non-photon particle points to (size/2, size/2, size/2), component by
\* component, and is zero at that point.  The centre is the constant
\* (0.5, 0.5, 0.5): in a domain of size 2.0 a particle between 0.5 and 1.0
\* is pulled away from the centre of the domain.
C28_GravityTowardDomainCentre ==
  \A i \in 1 .. Len(particles) :
    (~particles[i].isPhoton /\ FiniteMotion(particles[i])) =>
      LET force == calculateGravityForce(particles[i])
          centre == size \div 2
      IN  /\ PointsAlong(force.fx, centre - particles[i].x)
          /\ PointsAlong(force.fy, centre - particles[i].y)
          /\ mode3D => PointsAlong(force.fz, centre - particles[i].z)

----------------------------------------------------------------------------
(* The non-photon population *)

\* the particles of ps that are not photons, in collection order
Matter(ps) == SelectSeq(ps, NotPhoton)

\* the sum of the charges of ps from particle i on
RECURSIVE ChargeFrom(_, _)
ChargeFrom(ps, i) ==
  IF i > Len(ps) THEN 0 ELSE ps[i].charge + ChargeFrom(ps, i + 1)

\* C29: a tick leaves the non-photon population as it is: the same
\* particles in the same relative order, each with the charge, the mass and
\* the fixed flag it had, so the numbers of electrons and of protons and
\* the total charge are what they were; every particle the tick added or
\* removed is a photon.
C29_MatterKept ==
  Stepped =>
    /\ IdSeq(Matter(particles)) = IdSeq(Matter(pre))
    /\ \A k \in 1 .. Len(Matter(pre)) :
         /\ Matter(particles)[k].charge = Matter(pre)[k].charge
         /\ Matter(particles)[k].mass = Matter(pre)[k].mass
         /\ Matter(particles)[k].fixed = Matter(pre)[k].fixed
    /\ Cardinality({ i \in 1 .. Len(particles) : particles[i].charge < 0 }) =
         Cardinality({ i \in 1 .. Len(pre) : pre[i].charge < 0 })
    /\ Cardinality({ i \in 1 .. Len(particles) : particles[i].charge > 0 }) =
         Cardinality({ i \in 1 .. Len(pre) : pre[i].charge > 0 })
    /\ ChargeFrom(particles, 1) = ChargeFrom(pre, 1)
    /\ \A id \in Created : WithId(particles, id).isPhoton
    /\ \A id \in Destroyed : WithId(pre, id).isPhoton

\* a tick that removed a photon and added one, around an electron and a
\* proton
C29_Witness ==
  /\ Stepped
  /\ Created # {} /\ Destroyed # {}
  /\ \E k \in 1 .. Len(Matter(particles)) : Matter(particles)[k].charge < 0
  /\ \E k \in 1 .. Len(Matter(particles)) : Matter(particles)[k].charge > 0

----------------------------------------------------------------------------
(* Fixed particles and static protons *)

SamePosition(p, q) == p.x = q.x /\ p.y = q.y /\ p.z = q.z

SameVelocity(p, q) == p.vx = q.vx /\ p.vy = q.vy /\ p.vz = q.vz

\* the particles that are in the collection before and after the tick
Survivors == IdsOf(pre) \cap IdsOf(particles)

\* what a tick does to a particle that is fixed
FixedKept(id) ==
  /\ SamePosition(WithId(pre, id), WithId(particles, id))
  /\ SameVelocity(WithId(afterEmit, id), WithId(particles, id))
  /\ ~IsElectron(WithId(pre, id)) =>
       SameVelocity(WithId(pre, id), WithId(particles, id))

\* what a tick does to a positive charge while staticProtons is on
StaticKept(id) ==
  (staticProtons /\ WithId(pre, id).charge > 0) =>
    /\ SamePosition(WithId(pre, id), WithId(particles, id))
    /\ SameVelocity(WithId(pre, id), WithId(particles, id))

====
